---- MODULE Spec2Model ----
(***************************************************************************)
(* A model of the BLE host stack of node-ble-host: the Queue utility, the  *)
(* per-connection ATT engine (AttConnection) and the HCI adapter           *)
(* (HciAdapter).  Every operator carries the name of the function it is    *)
(* translated from.                                                        *)
(*                                                                         *)
(* The ATT engine lives in the record `att`, the HCI adapter in the record *)
(* `hci`.  Fields named as in the source are program state; the fields     *)
(* listed under "environment" record what the program handed to its        *)
(* collaborators (PDUs given to sendDataFn, callbacks it is still owed,    *)
(* bytes written to the transport) and are never read by the handlers.     *)
(***************************************************************************)
EXTENDS Integers, Sequences, FiniteSets, TLC

VARIABLES att, hci, gatt, client, cache, store, link, reads, srv, fifo, info, codec

vars == <<att, hci, gatt, client, cache, store, link, reads, srv, fifo, info, codec>>

(***************************************************************************)
(* Bounds of the model.                                                    *)
(***************************************************************************)
MaxOps == 3     \* API calls made and inbound PDUs handled on one ATT connection
MaxOut == 5     \* PDUs handed to sendDataFn before the model stops

(***************************************************************************)
(* utils.Queue.  q is never trimmed: shift calls q.slice(0, pos), which    *)
(* returns a copy and leaves q alone, and then resets pos to 0.            *)
(***************************************************************************)
Queue_new == [q |-> <<>>, pos |-> 0]

Queue_getLength(Q) == Len(Q.q) - Q.pos

Queue_push(Q, item) == [Q EXCEPT !.q = Append(@, item)]

\* what shift() returns when the queue is empty; every queued item is a
\* record of this shape with a positive id
undefined == [op |-> 0, id |-> 0, len |-> 0]

\* the element shift() returns
Queue_shift_elem(Q) == IF Q.pos = Len(Q.q) THEN undefined ELSE Q.q[Q.pos + 1]

\* the queue shift() leaves behind
Queue_shift(Q) ==
    IF Q.pos = Len(Q.q) THEN Q
    ELSE IF (Q.pos + 1) * 2 >= Len(Q.q)
         THEN [Q EXCEPT !.pos = 0]
         ELSE [Q EXCEPT !.pos = Q.pos + 1]

(***************************************************************************)
(* ATT opcodes (enum BleGattAttribute).                                    *)
(***************************************************************************)
ERROR_RESPONSE == 1
EXCHANGE_MTU_REQUEST == 2
EXCHANGE_MTU_RESPONSE == 3
FIND_INFORMATION_REQUEST == 4
FIND_INFORMATION_RESPONSE == 5
READ_REQUEST == 10
READ_RESPONSE == 11
READ_MULTIPLE_REQUEST == 14
READ_MULTIPLE_RESPONSE == 15
WRITE_REQUEST == 18
WRITE_RESPONSE == 19
WRITE_COMMAND == 82
PREPARE_WRITE_REQUEST == 22
PREPARE_WRITE_RESPONSE == 23
EXECUTE_WRITE_REQUEST == 24
EXECUTE_WRITE_RESPONSE == 25
HANDLE_VALUE_NOTIFICATION == 27
HANDLE_VALUE_INDICATION == 29
HANDLE_VALUE_CONFIRMATION == 30
SIGNED_WRITE_COMMAND == 210

isKnownRequestOpcode(opcode) ==
    opcode \in {EXCHANGE_MTU_REQUEST, 4, 6, 8, READ_REQUEST, 12, READ_MULTIPLE_REQUEST, 16,
                WRITE_REQUEST, PREPARE_WRITE_REQUEST, EXECUTE_WRITE_REQUEST}

isKnownResponseOpcode(opcode) ==
    opcode \in {ERROR_RESPONSE, EXCHANGE_MTU_RESPONSE, 5, 7, 9, READ_RESPONSE, 13,
                READ_MULTIPLE_RESPONSE, 17,
                WRITE_RESPONSE, PREPARE_WRITE_RESPONSE, EXECUTE_WRITE_RESPONSE}

Min(a, b) == IF a < b THEN a ELSE b
Max(a, b) == IF a > b THEN a ELSE b

(***************************************************************************)
(* The attribute database the connection serves: handle 1 is writable      *)
(* with maxLength 2, handle 2 is read-only, handle 4 can be neither read   *)
(* nor written, handle 5 is readable on an encrypted link only; every      *)
(* other handle is absent.                                                 *)
(***************************************************************************)
AttHandles == {1, 2, 4, 5}

attDb(handle) ==
    CASE handle = 1 -> [maxLength |-> 2, readPerm |-> "open", writePerm |-> "open"]
      [] handle = 4 -> [maxLength |-> 2, readPerm |-> "not-permitted",
                        writePerm |-> "not-permitted"]
      [] handle = 5 -> [maxLength |-> 2, readPerm |-> "encrypted",
                        writePerm |-> "not-permitted"]
      [] OTHER -> [maxLength |-> 2, readPerm |-> "open", writePerm |-> "not-permitted"]

\* connection.smp as the permission check reads it
smp == [isEncrypted |-> FALSE, hasLtk |-> FALSE, mitm |-> FALSE, sc |-> FALSE]

\* checkPerm that takes an unencrypted link for one without a stored LTK
checkPerm_ignoresLtk(connection_smp, perm, isWrite) ==
    CASE perm = "not-permitted" -> (IF isWrite THEN "WRITE_NOT_PERMITTED" ELSE "READ_NOT_PERMITTED")
      [] perm = "open" -> "OK"
      [] perm = "custom" -> "OK"
      [] OTHER ->
            IF ~connection_smp.isEncrypted THEN "INSUFFICIENT_AUTHENTICATION"
            ELSE CASE perm = "encrypted" -> "OK"
                   [] perm = "encrypted-mitm" ->
                        (IF connection_smp.mitm THEN "OK" ELSE "INSUFFICIENT_AUTHENTICATION")
                   [] OTHER ->
                        (IF connection_smp.mitm /\ connection_smp.sc
                         THEN "OK" ELSE "INSUFFICIENT_AUTHENTICATION")

\* checkPerm on a connection whose security manager is connection_smp;
\* mitm and sc are the flags of currentEncryptionLevel
checkPerm_smp(connection_smp, perm, isWrite) ==
    CASE perm = "not-permitted" -> (IF isWrite THEN "WRITE_NOT_PERMITTED" ELSE "READ_NOT_PERMITTED")
      [] perm = "open" -> "OK"
      [] perm = "custom" -> "OK"
      [] OTHER ->
            IF ~connection_smp.isEncrypted
            THEN (IF connection_smp.hasLtk
                  THEN "INSUFFICIENT_ENCRYPTION" ELSE "INSUFFICIENT_AUTHENTICATION")
            ELSE CASE perm = "encrypted" -> "OK"
                   [] perm = "encrypted-mitm" ->
                        (IF connection_smp.mitm THEN "OK" ELSE "INSUFFICIENT_AUTHENTICATION")
                   [] OTHER ->
                        (IF connection_smp.mitm /\ connection_smp.sc
                         THEN "OK" ELSE "INSUFFICIENT_AUTHENTICATION")

checkPerm(perm, isWrite) == checkPerm_smp(smp, perm, isWrite)

checkReadPermission(item) == checkPerm(item.readPerm, FALSE)

checkWritePermission(item) == checkPerm(item.writePerm, TRUE)

(***************************************************************************)
(* AttConnection: the state of one connection's ATT engine.                *)
(*                                                                         *)
(* Program state: the closure variables of AttConnection, with             *)
(* requestTimer / indicationTimer telling whether the timer behind         *)
(* requestTimeoutClearFn / indicationTimeoutClearFn is armed, and          *)
(* sendDataFn telling whether the variable still holds the lower layer's   *)
(* function ("send") or the empty function attTimeout puts there ("noop"). *)
(*                                                                         *)
(* Environment: out (PDUs handed to the lower layer, oldest first),        *)
(* sentCallbacks (sent-callbacks the lower layer still owes, in order),    *)
(* pending (attribute and upper-layer callbacks not yet invoked),          *)
(* flushing (the data handler is inside its notification flush loop),      *)
(* thrown (exceptions that escaped the data handler), serving (accepted    *)
(* requests whose response has not been reported sent), completed (own     *)
(* requests whose response was accepted), executed (Execute Write requests *)
(* with flag 1 that found a non-empty queue), multipleReads (the Read      *)
(* Multiple requests whose last handle was dealt with, each with the       *)
(* outcome per handle), timeoutCalls and                                   *)
(* indicationCallbacks (calls of timeoutCallback and of the callbacks      *)
(* given to indicate), lastExchange and mtuChanges (the MTU exchanges      *)
(* carried out and the assignments to currentMtu), and nOps, the           *)
(* number of API calls and inbound PDUs so far; the n-th of them carries   *)
(* the id n.                                                               *)
(***************************************************************************)
NoRequest == [responseOpcode |-> 0, id |-> 0]

NoExchange == [before |-> 0, client |-> 0, server |-> 0]

AttConnection ==
    [currentMtu |-> 23,
     timedout |-> FALSE,
     sendDataFn |-> "send",
     requestQueue |-> Queue_new,
     currentOutgoingRequest |-> NoRequest,
     currentOutgoingRequestIsSent |-> FALSE,
     hasOutgoingConfirmation |-> FALSE,
     requestTimer |-> FALSE,
     isHandlingRequest |-> FALSE,
     indicationQueue |-> Queue_new,
     currentOutgoingIndication |-> 0,
     currentOutgoingIndicationIsSent |-> FALSE,
     indicationTimer |-> FALSE,
     prepareWriteQueue |-> <<>>,
     prepareWriteQueueSize |-> 0,
     notificationQueue |-> Queue_new,
     \* environment
     out |-> <<>>,
     sentCallbacks |-> <<>>,
     pending |-> {},
     flushing |-> FALSE,
     thrown |-> {},
     serving |-> {},
     completed |-> <<>>,
     executed |-> {},
     multipleReads |-> <<>>,
     timeoutCalls |-> 0,
     indicationCallbacks |-> <<>>,
     lastExchange |-> NoExchange,
     mtuChanges |-> 0,
     nOps |-> 0]

Pdu(op, id, req, handle, err, len) ==
    [op |-> op, id |-> id, req |-> req, handle |-> handle, err |-> err, len |-> len]

\* a call of the variable sendDataFn
CallSendDataFn(s, pdu, cb) ==
    IF s.sendDataFn = "noop" THEN s
    ELSE [s EXCEPT !.out = Append(@, pdu), !.sentCallbacks = Append(@, cb)]

\* attTimeout that leaves sendDataFn in place
attTimeout_keepsSendDataFn(s) ==
    IF ~s.timedout
    THEN [s EXCEPT !.timedout = TRUE, !.timeoutCalls = @ + 1]
    ELSE s

attTimeout(s) ==
    IF ~s.timedout
    THEN [s EXCEPT !.timedout = TRUE, !.sendDataFn = "noop", !.timeoutCalls = @ + 1]
    ELSE s

sendNextRequest(s) ==
    IF s.currentOutgoingRequest = NoRequest
    THEN LET next == Queue_shift_elem(s.requestQueue)
             s1 == [s EXCEPT !.requestQueue = Queue_shift(@)]
         IN  IF next # undefined
             THEN CallSendDataFn(
                      [s1 EXCEPT !.requestTimer = TRUE,
                                 !.currentOutgoingRequest =
                                     [responseOpcode |-> next.op + 1, id |-> next.id],
                                 !.currentOutgoingRequestIsSent = FALSE],
                      Pdu(next.op, next.id, 0, 0, "NONE", Min(next.len, s.currentMtu)),
                      [kind |-> "request", id |-> next.id])
             ELSE s1
    ELSE s

sendResponse(s, pdu) ==
    CallSendDataFn([s EXCEPT !.isHandlingRequest = TRUE], pdu,
                   [kind |-> "response", id |-> pdu.id])

\* rid identifies the inbound PDU the error answers
sendErrorResponse(s, rid, opcode, handle, errorCode) ==
    sendResponse(s, Pdu(ERROR_RESPONSE, rid, opcode, handle, errorCode, 5))

\* sendNextIndication that arms the timer before it looks into the queue
sendNextIndication_armsFirst(s) ==
    IF s.currentOutgoingIndication = 0
       /\ (s.currentOutgoingRequest = NoRequest
           \/ s.currentOutgoingRequest.responseOpcode # EXCHANGE_MTU_RESPONSE)
    THEN LET next == Queue_shift_elem(s.indicationQueue)
             s1 == [s EXCEPT !.indicationQueue = Queue_shift(@), !.indicationTimer = TRUE]
         IN  IF next # undefined
             THEN CallSendDataFn(
                      [s1 EXCEPT !.currentOutgoingIndication = next.id,
                                 !.currentOutgoingIndicationIsSent = FALSE],
                      Pdu(next.op, next.id, 0, 0, "NONE", Min(next.len, s.currentMtu)),
                      [kind |-> "indication", id |-> next.id])
             ELSE s1
    ELSE s

sendNextIndication(s) ==
    IF s.currentOutgoingIndication = 0
       /\ (s.currentOutgoingRequest = NoRequest
           \/ s.currentOutgoingRequest.responseOpcode # EXCHANGE_MTU_RESPONSE)
    THEN LET next == Queue_shift_elem(s.indicationQueue)
             s1 == [s EXCEPT !.indicationQueue = Queue_shift(@)]
         IN  IF next # undefined
             THEN CallSendDataFn(
                      [s1 EXCEPT !.indicationTimer = TRUE,
                                 !.currentOutgoingIndication = next.id,
                                 !.currentOutgoingIndicationIsSent = FALSE],
                      Pdu(next.op, next.id, 0, 0, "NONE", Min(next.len, s.currentMtu)),
                      [kind |-> "indication", id |-> next.id])
             ELSE s1
    ELSE s

sendConfirmation(s) ==
    CallSendDataFn([s EXCEPT !.hasOutgoingConfirmation = TRUE],
                   Pdu(HANDLE_VALUE_CONFIRMATION, 0, 0, 0, "NONE", 1),
                   [kind |-> "confirmation", id |-> 0])

enqueueRequest(s, data) ==
    sendNextRequest([s EXCEPT !.requestQueue = Queue_push(@, data)])

(***************************************************************************)
(* Inbound PDUs.  len is data.length; the value of a write is the part of  *)
(* the PDU after its header, so its length is len - 3 (write) or len - 5   *)
(* (prepare write).  mtu is the 16-bit MTU field, flags the execute flag.  *)
(***************************************************************************)
In(op, len, handle, offset, mtu, flags) ==
    [op |-> op, len |-> len, handle |-> handle, offset |-> offset, mtu |-> mtu, flags |-> flags,
     handles |-> <<>>]

MtuValues == {20, 100, 600}

PREPARE_QUEUE_LIMIT == 128

\* the callback of exchangeMtu without the test currentMtu == 23
exchangeMtu_callback_anyMtu(s, err, data) ==
    IF err THEN <<TRUE, s>>
    ELSE IF data.len # 3 THEN <<FALSE, s>>
    ELSE LET newMTU == Min(517, Max(23, data.mtu))
             s1 == [s EXCEPT !.lastExchange =
                        [before |-> s.currentMtu, client |-> 517, server |-> data.mtu]]
         IN  IF newMTU # s.currentMtu
             THEN <<TRUE, [s1 EXCEPT !.currentMtu = newMTU, !.mtuChanges = @ + 1]>>
             ELSE <<TRUE, s1>>

\* the callback exchangeMtu passes to enqueueRequest: <<return value, state>>
exchangeMtu_callback(s, err, data) ==
    IF err THEN <<TRUE, s>>
    ELSE IF data.len # 3 THEN <<FALSE, s>>
    ELSE LET clientRxMTU == 517
             serverRxMTU == Max(23, data.mtu)
             newMTU == Min(clientRxMTU, serverRxMTU)
             s1 == [s EXCEPT !.lastExchange =
                        [before |-> s.currentMtu, client |-> clientRxMTU, server |-> data.mtu]]
         IN  IF s.currentMtu = 23 /\ newMTU # 23
             THEN <<TRUE, [s1 EXCEPT !.currentMtu = newMTU, !.mtuChanges = @ + 1]>>
             ELSE <<TRUE, s1>>

\* the callback read passes to enqueueRequest
read_callback(s, err, data) == <<TRUE, s>>

\* the callback findInformation passes to enqueueRequest
findInformation_callback(s, err, data) ==
    IF err THEN <<TRUE, s>>
    ELSE IF data.len < 6 THEN <<FALSE, s>>
    ELSE IF data.format > 2 THEN <<FALSE, s>>
    ELSE IF (data.len - 2) % (IF data.format = 1 THEN 4 ELSE 18) # 0 THEN <<FALSE, s>>
    ELSE <<TRUE, s>>

\* the response match of the data handler that goes on whatever the
\* request's callback returns
onData_response_anyReturn(s, data) ==
    IF data.op = ERROR_RESPONSE /\ data.len # 5 THEN s
    ELSE LET err == data.op = ERROR_RESPONSE
             r == CASE s.currentOutgoingRequest.responseOpcode = EXCHANGE_MTU_RESPONSE ->
                           exchangeMtu_callback(s, err, data)
                    [] s.currentOutgoingRequest.responseOpcode = FIND_INFORMATION_RESPONSE ->
                           findInformation_callback(s, err, data)
                    [] OTHER -> read_callback(s, err, data)
         IN  LET wasMtuExchange ==
                          s.currentOutgoingRequest.responseOpcode = EXCHANGE_MTU_RESPONSE
                      s1 == [r[2] EXCEPT !.requestTimer = FALSE,
                                         !.currentOutgoingRequest = NoRequest,
                                         !.completed = Append(@, s.currentOutgoingRequest.id)]
                  IN  IF wasMtuExchange
                      THEN IF Queue_getLength(s1.notificationQueue) # 0
                           THEN [s1 EXCEPT !.flushing = TRUE]
                           ELSE sendNextRequest(sendNextIndication(s1))
                      ELSE sendNextRequest(s1)

\* the registered data handler, from the response match on
onData_response(s, data) ==
    IF data.op = ERROR_RESPONSE /\ data.len # 5 THEN s
    ELSE LET err == data.op = ERROR_RESPONSE
             r == CASE s.currentOutgoingRequest.responseOpcode = EXCHANGE_MTU_RESPONSE ->
                           exchangeMtu_callback(s, err, data)
                    [] s.currentOutgoingRequest.responseOpcode = FIND_INFORMATION_RESPONSE ->
                           findInformation_callback(s, err, data)
                    [] OTHER -> read_callback(s, err, data)
         IN  IF ~r[1] THEN s
             ELSE LET wasMtuExchange ==
                          s.currentOutgoingRequest.responseOpcode = EXCHANGE_MTU_RESPONSE
                      s1 == [r[2] EXCEPT !.requestTimer = FALSE,
                                         !.currentOutgoingRequest = NoRequest,
                                         !.completed = Append(@, s.currentOutgoingRequest.id)]
                  IN  IF wasMtuExchange
                      THEN IF Queue_getLength(s1.notificationQueue) # 0
                           THEN [s1 EXCEPT !.flushing = TRUE]
                           ELSE sendNextRequest(sendNextIndication(s1))
                      ELSE sendNextRequest(s1)

\* one turn of `while (notificationQueue.getLength() !== 0)`, and what
\* follows the loop once its condition is false
onData_flush(s) ==
    IF Queue_getLength(s.notificationQueue) # 0
    THEN LET item == Queue_shift_elem(s.notificationQueue)
         IN  CallSendDataFn([s EXCEPT !.notificationQueue = Queue_shift(@)],
                            Pdu(item.op, item.id, 0, 0, "NONE", Min(item.len, s.currentMtu)),
                            [kind |-> "notification", id |-> item.id])
    ELSE sendNextRequest(sendNextIndication([s EXCEPT !.flushing = FALSE]))

onData_EXCHANGE_MTU_REQUEST(s, rid, data) ==
    IF data.len # 3 THEN sendErrorResponse(s, rid, data.op, 0, "INVALID_PDU")
    ELSE LET clientRxMTU == IF data.mtu < 23 THEN 23 ELSE data.mtu
             serverRxMTU == 517
             s1 == sendResponse(s, Pdu(EXCHANGE_MTU_RESPONSE, rid, 0, 0, "NONE", 3))
             newMTU == Min(clientRxMTU, serverRxMTU)
             s2 == [s1 EXCEPT !.lastExchange =
                        [before |-> s.currentMtu, client |-> data.mtu, server |-> serverRxMTU]]
         IN  IF s.currentMtu = 23 /\ newMTU # 23
             THEN [s2 EXCEPT !.currentMtu = newMTU, !.mtuChanges = @ + 1]
             ELSE s2

Suspend(s, kind, rid, data) ==
    [s EXCEPT !.pending = @ \cup {[kind |-> kind, rid |-> rid, op |-> data.op, len |-> data.len,
                                   handle |-> data.handle, offset |-> data.offset,
                                   mtu |-> s.currentMtu]}]

onData_READ_REQUEST(s, rid, data) ==
    IF data.len # 3 THEN sendErrorResponse(s, rid, data.op, 0, "INVALID_PDU")
    ELSE IF data.handle \notin AttHandles
    THEN sendErrorResponse(s, rid, data.op, data.handle, "INVALID_HANDLE")
    ELSE LET perm == checkReadPermission(attDb(data.handle))
         IN  IF perm # "OK" THEN sendErrorResponse(s, rid, data.op, data.handle, perm)
             ELSE Suspend([s EXCEPT !.isHandlingRequest = TRUE], "read", rid, data)

\* the end of nextFn, after the last handle: q.list holds the outcome per
\* handle.  buffers is a Buffer, which has no push, so the first outcome
\* without error throws a TypeError out of forEach; firstReadNotPerm is
\* never assigned.
READ_MULTIPLE_reply(s, q) ==
    LET list == q.list
        First(err) ==
            LET at == {i \in 1..Len(list) : list[i].err = err}
            IN  IF at = {} THEN 0 ELSE list[CHOOSE i \in at : \A j \in at : i <= j].handle
        failed == {i \in 1..Len(list) : list[i].err # "OK"}
        firstOther == IF failed = {} THEN 0
                      ELSE CHOOSE i \in failed : \A j \in failed : i <= j
        firstReadNotPerm == 0
        s1 == [s EXCEPT !.multipleReads = Append(@, [rid |-> q.rid, list |-> list])]
    IN  IF \E i \in 1..Len(list) : list[i].err = "OK"
        THEN [s1 EXCEPT !.thrown = @ \cup {q.rid}]
        ELSE IF First("INSUFFICIENT_AUTHORIZATION") # 0
        THEN sendErrorResponse(s1, q.rid, q.op, First("INSUFFICIENT_AUTHORIZATION"),
                               "INSUFFICIENT_AUTHORIZATION")
        ELSE IF First("INSUFFICIENT_AUTHENTICATION") # 0
        THEN sendErrorResponse(s1, q.rid, q.op, First("INSUFFICIENT_AUTHENTICATION"),
                               "INSUFFICIENT_AUTHENTICATION")
        ELSE IF First("INSUFFICIENT_ENCRYPTION_KEY_SIZE") # 0
        THEN sendErrorResponse(s1, q.rid, q.op, First("INSUFFICIENT_ENCRYPTION_KEY_SIZE"),
                               "INSUFFICIENT_ENCRYPTION_KEY_SIZE")
        ELSE IF First("INSUFFICIENT_ENCRYPTION") # 0
        THEN sendErrorResponse(s1, q.rid, q.op, First("INSUFFICIENT_ENCRYPTION"),
                               "INSUFFICIENT_ENCRYPTION")
        ELSE IF firstReadNotPerm # 0
        THEN sendErrorResponse(s1, q.rid, q.op, firstReadNotPerm, "READ_NOT_PERMITTED")
        ELSE IF firstOther # 0
        THEN sendErrorResponse(s1, q.rid, q.op, list[firstOther].handle, list[firstOther].err)
        ELSE sendResponse(s1, Pdu(READ_MULTIPLE_RESPONSE, q.rid, 0, 0, "NONE", 1))

\* nextFn(i) of the READ_MULTIPLE_REQUEST branch; q is the call in progress:
\* its handles, the index i (from 1) and the outcomes so far
RECURSIVE READ_MULTIPLE_nextFn(_, _)
READ_MULTIPLE_nextFn(s, q) ==
    IF q.i > Len(q.handles) THEN READ_MULTIPLE_reply(s, q)
    ELSE LET handle == q.handles[q.i]
         IN  IF handle \notin AttHandles
             THEN sendErrorResponse(s, q.rid, q.op, handle, "INVALID_HANDLE")
             ELSE LET perm == checkReadPermission(attDb(handle))
                  IN  IF perm # "OK"
                      THEN READ_MULTIPLE_nextFn(
                               s, [q EXCEPT !.list = Append(@, [err |-> perm, handle |-> handle]),
                                            !.i = @ + 1])
                      ELSE [s EXCEPT !.pending = @ \cup {q}]

onData_READ_MULTIPLE_REQUEST(s, rid, data) ==
    IF data.len < 5 \/ (data.len - 1) % 2 # 0
    THEN sendErrorResponse(s, rid, data.op, 0, "INVALID_PDU")
    ELSE LET absent == {i \in 1..Len(data.handles) : data.handles[i] \notin AttHandles}
         IN  IF absent # {}
             THEN sendErrorResponse(s, rid, data.op,
                                    data.handles[CHOOSE i \in absent : \A j \in absent : i <= j],
                                    "INVALID_HANDLE")
             ELSE READ_MULTIPLE_nextFn(
                      [s EXCEPT !.isHandlingRequest = TRUE],
                      [kind |-> "readMultiple", rid |-> rid, op |-> data.op,
                       handles |-> data.handles, i |-> 1, list |-> <<>>,
                       mtu |-> s.currentMtu])

onData_WRITE(s, rid, data) ==
    LET isCommand == data.op = WRITE_COMMAND
    IN  IF data.len < 3
        THEN IF isCommand THEN s ELSE sendErrorResponse(s, rid, data.op, 0, "INVALID_PDU")
        ELSE IF data.handle \notin AttHandles
        THEN IF isCommand THEN s
             ELSE sendErrorResponse(s, rid, data.op, data.handle, "INVALID_HANDLE")
        ELSE LET perm == checkWritePermission(attDb(data.handle))
             IN  IF perm # "OK"
                 THEN IF isCommand THEN s
                      ELSE sendErrorResponse(s, rid, data.op, data.handle, perm)
                 ELSE Suspend([s EXCEPT !.isHandlingRequest = (@ \/ ~isCommand)],
                              "authorizeWrite", rid, data)

\* the PREPARE_WRITE_REQUEST branch with > in place of >= in the test of
\* prepareWriteQueueSize
onData_PREPARE_WRITE_REQUEST_oneMore(s, rid, data) ==
    IF data.len < 5 THEN sendErrorResponse(s, rid, data.op, 0, "INVALID_PDU")
    ELSE IF data.handle \notin AttHandles
    THEN sendErrorResponse(s, rid, data.op, data.handle, "INVALID_HANDLE")
    ELSE LET perm == checkWritePermission(attDb(data.handle))
         IN  IF perm # "OK" THEN sendErrorResponse(s, rid, data.op, data.handle, perm)
             ELSE IF s.prepareWriteQueueSize > PREPARE_QUEUE_LIMIT
             THEN sendErrorResponse(s, rid, data.op, data.handle, "PREPARE_QUEUE_FULL")
             ELSE Suspend([s EXCEPT !.isHandlingRequest = TRUE], "authorizePrepare", rid, data)

onData_PREPARE_WRITE_REQUEST(s, rid, data) ==
    IF data.len < 5 THEN sendErrorResponse(s, rid, data.op, 0, "INVALID_PDU")
    ELSE IF data.handle \notin AttHandles
    THEN sendErrorResponse(s, rid, data.op, data.handle, "INVALID_HANDLE")
    ELSE LET perm == checkWritePermission(attDb(data.handle))
         IN  IF perm # "OK" THEN sendErrorResponse(s, rid, data.op, data.handle, perm)
             ELSE IF s.prepareWriteQueueSize >= PREPARE_QUEUE_LIMIT
             THEN sendErrorResponse(s, rid, data.op, data.handle, "PREPARE_QUEUE_FULL")
             ELSE Suspend([s EXCEPT !.isHandlingRequest = TRUE], "authorizePrepare", rid, data)

\* index of the first queued entry the pre-validation loop rejects, 0 if none
FirstInvalid(queue) ==
    LET bad == {i \in 1..Len(queue) :
                   \/ queue[i].offset > attDb(queue[i].handle).maxLength
                   \/ queue[i].offset + queue[i].len > attDb(queue[i].handle).maxLength}
    IN  IF bad = {} THEN 0 ELSE CHOOSE i \in bad : \A j \in bad : i <= j

\* the EXECUTE_WRITE_REQUEST branch whose pre-validation loop answers
\* without emptying the queue
onData_EXECUTE_WRITE_REQUEST_keepsQueue(s, rid, data) ==
    IF data.len # 2 \/ data.flags > 1 THEN sendErrorResponse(s, rid, data.op, 0, "INVALID_PDU")
    ELSE IF data.flags = 0 \/ Len(s.prepareWriteQueue) = 0
    THEN sendResponse([s EXCEPT !.prepareWriteQueue = <<>>, !.prepareWriteQueueSize = 0],
                      Pdu(EXECUTE_WRITE_RESPONSE, rid, 0, 0, "NONE", 1))
    ELSE LET i == FirstInvalid(s.prepareWriteQueue)
             s0 == [s EXCEPT !.executed = @ \cup {rid}]
         IN  IF i # 0
             THEN LET elem == s.prepareWriteQueue[i]
                  IN  sendErrorResponse(
                          s0, rid, data.op, elem.handle,
                          IF elem.offset > attDb(elem.handle).maxLength
                          THEN "INVALID_OFFSET" ELSE "INVALID_ATTRIBUTE_VALUE_LENGTH")
             ELSE [s0 EXCEPT !.isHandlingRequest = TRUE, !.thrown = @ \cup {rid}]

\* `var elem = prepareWriteQueue[i]` is followed by a line that starts with
\* `(`, so the two lines are one statement, a call of prepareWriteQueue[i]:
\* the first turn of the write loop throws a TypeError before any write
onData_EXECUTE_WRITE_REQUEST(s, rid, data) ==
    IF data.len # 2 \/ data.flags > 1 THEN sendErrorResponse(s, rid, data.op, 0, "INVALID_PDU")
    ELSE IF data.flags = 0 \/ Len(s.prepareWriteQueue) = 0
    THEN sendResponse([s EXCEPT !.prepareWriteQueue = <<>>, !.prepareWriteQueueSize = 0],
                      Pdu(EXECUTE_WRITE_RESPONSE, rid, 0, 0, "NONE", 1))
    ELSE LET i == FirstInvalid(s.prepareWriteQueue)
             s0 == [s EXCEPT !.executed = @ \cup {rid}]
         IN  IF i # 0
             THEN LET elem == s.prepareWriteQueue[i]
                  IN  sendErrorResponse(
                          [s0 EXCEPT !.prepareWriteQueue = <<>>, !.prepareWriteQueueSize = 0],
                          rid, data.op, elem.handle,
                          IF elem.offset > attDb(elem.handle).maxLength
                          THEN "INVALID_OFFSET" ELSE "INVALID_ATTRIBUTE_VALUE_LENGTH")
             ELSE [s0 EXCEPT !.isHandlingRequest = TRUE, !.thrown = @ \cup {rid}]

onData_HANDLE_VALUE(s, rid, data) ==
    LET isIndication == data.op = HANDLE_VALUE_INDICATION
    IN  IF data.len < 3 THEN s
        ELSE IF isIndication /\ s.hasOutgoingConfirmation THEN s
        ELSE IF isIndication THEN Suspend(s, "confirm", rid, data)
        ELSE s

onData_HANDLE_VALUE_CONFIRMATION(s, data) ==
    IF data.len # 1 \/ s.currentOutgoingIndication = 0 \/ ~s.currentOutgoingIndicationIsSent
    THEN s
    ELSE sendNextIndication(
             [s EXCEPT !.indicationCallbacks = Append(@, s.currentOutgoingIndication),
                       !.indicationTimer = FALSE,
                       !.currentOutgoingIndication = 0])

\* the function given to registerOnDataFn
onData(s, data) ==
    IF s.timedout THEN s
    ELSE IF data.len = 0 THEN s
    ELSE IF data.len > s.currentMtu THEN s
    ELSE IF /\ s.currentOutgoingRequest # NoRequest
            /\ s.currentOutgoingRequestIsSent
            /\ (data.op = s.currentOutgoingRequest.responseOpcode \/ data.op = ERROR_RESPONSE)
    THEN onData_response(s, data)
    ELSE IF isKnownResponseOpcode(data.op) THEN s
    ELSE IF s.isHandlingRequest /\ isKnownRequestOpcode(data.op) THEN s
    ELSE LET rid == s.nOps + 1
             s1 == [s EXCEPT !.serving = IF isKnownRequestOpcode(data.op)
                                         THEN @ \cup {rid} ELSE @]
         IN  CASE data.op = EXCHANGE_MTU_REQUEST -> onData_EXCHANGE_MTU_REQUEST(s1, rid, data)
               [] data.op = READ_REQUEST -> onData_READ_REQUEST(s1, rid, data)
               [] data.op = READ_MULTIPLE_REQUEST ->
                      onData_READ_MULTIPLE_REQUEST(s1, rid, data)
               [] data.op \in {WRITE_REQUEST, WRITE_COMMAND} -> onData_WRITE(s1, rid, data)
               [] data.op = PREPARE_WRITE_REQUEST -> onData_PREPARE_WRITE_REQUEST(s1, rid, data)
               [] data.op = EXECUTE_WRITE_REQUEST -> onData_EXECUTE_WRITE_REQUEST(s1, rid, data)
               [] data.op \in {HANDLE_VALUE_NOTIFICATION, HANDLE_VALUE_INDICATION} ->
                      onData_HANDLE_VALUE(s, rid, data)
               [] data.op = HANDLE_VALUE_CONFIRMATION -> onData_HANDLE_VALUE_CONFIRMATION(s, data)
               [] OTHER -> s

(***************************************************************************)
(* The callbacks the data handler hands to the attribute database and to   *)
(* notifyIndicateCallback.  p is the suspended call, err the error the     *)
(* attribute reports ("OK" for 0).                                         *)
(***************************************************************************)
Resume(s, p) == [s EXCEPT !.pending = @ \ {p}]

read_done(s, p, err, valueLength) ==
    IF err # "OK" THEN sendErrorResponse(Resume(s, p), p.rid, p.op, p.handle, err)
    ELSE sendResponse(Resume(s, p),
                      Pdu(READ_RESPONSE, p.rid, 0, 0, "NONE", 1 + Min(valueLength, p.mtu - 1)))

\* the callback nextFn passes to item.read
readMultiple_done(s, p, err) ==
    READ_MULTIPLE_nextFn(Resume(s, p),
                         [p EXCEPT !.list = Append(@, [err |-> err, handle |-> p.handles[p.i]]),
                                   !.i = @ + 1])

authorizeWrite_done(s, p, err) ==
    LET isCommand == p.op = WRITE_COMMAND
        s1 == Resume(s, p)
    IN  IF err # "OK"
        THEN IF ~isCommand THEN sendErrorResponse(s1, p.rid, p.op, p.handle, err) ELSE s1
        ELSE IF p.len - 3 > attDb(p.handle).maxLength
        THEN sendErrorResponse(s1, p.rid, p.op, p.handle, "INVALID_ATTRIBUTE_VALUE_LENGTH")
        ELSE [s1 EXCEPT !.pending = @ \cup {[p EXCEPT !.kind = "write"]}]

write_done(s, p, err) ==
    LET isCommand == p.op = WRITE_COMMAND
        s1 == Resume(s, p)
    IN  IF isCommand THEN s1
        ELSE IF err # "OK" THEN sendErrorResponse(s1, p.rid, p.op, p.handle, err)
        ELSE sendResponse(s1, Pdu(WRITE_RESPONSE, p.rid, 0, 0, "NONE", 1))

authorizePrepare_done(s, p, err) ==
    LET s1 == Resume(s, p)
        queue == s.prepareWriteQueue
        n == Len(queue)
        echo == Pdu(PREPARE_WRITE_RESPONSE, p.rid, 0, p.handle, "NONE", p.len)
    IN  IF err # "OK" THEN sendErrorResponse(s1, p.rid, p.op, p.handle, err)
        ELSE LET s2 == [s1 EXCEPT !.prepareWriteQueueSize = @ + 1]
             IN  IF n > 0 /\ queue[n].handle = p.handle
                          /\ queue[n].offset + queue[n].len = p.offset
                 THEN sendResponse(
                          [s2 EXCEPT !.prepareWriteQueue[n].len = @ + (p.len - 5)], echo)
                 ELSE sendResponse(
                          [s2 EXCEPT !.prepareWriteQueue =
                               Append(@, [handle |-> p.handle, offset |-> p.offset,
                                          len |-> p.len - 5])], echo)

confirm_done(s, p) == sendConfirmation(Resume(s, p))

notify(s, id, valueLength) ==
    LET buffer == [op |-> HANDLE_VALUE_NOTIFICATION, id |-> id, len |-> 3 + valueLength]
    IN  IF s.currentOutgoingRequest # NoRequest
           /\ s.currentOutgoingRequest.responseOpcode = EXCHANGE_MTU_RESPONSE
        THEN [s EXCEPT !.notificationQueue = Queue_push(@, buffer)]
        ELSE CallSendDataFn(s, Pdu(buffer.op, id, 0, 0, "NONE", Min(buffer.len, s.currentMtu)),
                            [kind |-> "notification", id |-> id])

indicate(s, id, valueLength) ==
    sendNextIndication(
        [s EXCEPT !.indicationQueue =
             Queue_push(@, [op |-> HANDLE_VALUE_INDICATION, id |-> id, len |-> 3 + valueLength])])

\* the sent-callbacks the engine passes to sendDataFn
sentCallback(s, cb) ==
    CASE cb.kind = "request" -> [s EXCEPT !.currentOutgoingRequestIsSent = TRUE]
      [] cb.kind = "response" -> [s EXCEPT !.isHandlingRequest = FALSE,
                                           !.serving = @ \ {cb.id}]
      [] cb.kind = "indication" -> [s EXCEPT !.currentOutgoingIndicationIsSent = TRUE]
      [] cb.kind = "confirmation" -> [s EXCEPT !.hasOutgoingConfirmation = FALSE]
      [] OTHER -> s

(***************************************************************************)
(* The inputs of the ATT engine.                                           *)
(***************************************************************************)
ValueLengths == {1, 30}

AttributeErrors == {"OK", "INSUFFICIENT_AUTHORIZATION"}

InboundPdus ==
    {In(EXCHANGE_MTU_REQUEST, 3, 0, 0, m, 0) : m \in MtuValues}
    \cup {In(EXCHANGE_MTU_RESPONSE, 3, 0, 0, m, 0) : m \in MtuValues}
    \cup {In(op, 3, h, 0, 0, 0) : op \in {READ_REQUEST}, h \in {1, 3}}
    \cup {In(op, l, 0, 0, 0, 0) : op \in {ERROR_RESPONSE}, l \in {4, 5}}
    \cup {In(op, 2, 0, 0, 0, 0) : op \in {READ_RESPONSE, EXCHANGE_MTU_RESPONSE}}
    \cup {In(op, 3 + v, 1, 0, 0, 0) : op \in {WRITE_REQUEST, WRITE_COMMAND}, v \in {1, 3}}
    \cup {In(WRITE_REQUEST, 4, 2, 0, 0, 0)}
    \cup {In(PREPARE_WRITE_REQUEST, 6, 1, o, 0, 0) : o \in {0, 1, 2, 4}}
    \cup {In(EXECUTE_WRITE_REQUEST, 2, 0, 0, 0, f) : f \in {0, 1}}
    \cup {In(HANDLE_VALUE_INDICATION, 4, 1, 0, 0, 0)}
    \cup {In(HANDLE_VALUE_CONFIRMATION, 1, 0, 0, 0, 0),
          In(SIGNED_WRITE_COMMAND, 4, 1, 0, 0, 0),
          In(READ_REQUEST, 0, 0, 0, 0, 0),
          In(READ_REQUEST, 600, 0, 0, 0, 0)}

\* the model stops once MaxOut PDUs went out
Room == ~att.flushing /\ Len(att.out) < MaxOut

\* an API call or an inbound PDU that takes the engine from att to s
Op(s) == att.nOps < MaxOps /\ s # att /\ att' = [s EXCEPT !.nOps = att.nOps + 1]

(***************************************************************************)
(* Actions of the ATT engine.                                              *)
(***************************************************************************)
ExchangeMtu ==
    /\ Room
    /\ Op(enqueueRequest(att, [op |-> EXCHANGE_MTU_REQUEST, id |-> att.nOps + 1, len |-> 3]))
    /\ UNCHANGED <<hci, gatt, client, cache, store, link, reads, srv, fifo, info, codec>>

Read ==
    /\ Room
    /\ Op(enqueueRequest(att, [op |-> READ_REQUEST, id |-> att.nOps + 1, len |-> 3]))
    /\ UNCHANGED <<hci, gatt, client, cache, store, link, reads, srv, fifo, info, codec>>

Notify ==
    /\ Room
    /\ \E v \in ValueLengths : Op(notify(att, att.nOps + 1, v))
    /\ UNCHANGED <<hci, gatt, client, cache, store, link, reads, srv, fifo, info, codec>>

Indicate ==
    /\ Room
    /\ Op(indicate(att, att.nOps + 1, 1))
    /\ UNCHANGED <<hci, gatt, client, cache, store, link, reads, srv, fifo, info, codec>>

ReceiveData ==
    /\ Room
    /\ \E data \in InboundPdus : Op(onData(att, data))
    /\ UNCHANGED <<hci, gatt, client, cache, store, link, reads, srv, fifo, info, codec>>

Flush ==
    /\ att.flushing /\ Len(att.out) < MaxOut
    /\ att' = onData_flush(att)
    /\ UNCHANGED <<hci, gatt, client, cache, store, link, reads, srv, fifo, info, codec>>

ReadDone ==
    /\ Room
    /\ \E p \in att.pending, err \in AttributeErrors :
          p.kind = "read" /\ att' = read_done(att, p, err, attDb(p.handle).maxLength)
    /\ UNCHANGED <<hci, gatt, client, cache, store, link, reads, srv, fifo, info, codec>>

AuthorizeWriteDone ==
    /\ Room
    /\ \E p \in att.pending, err \in AttributeErrors :
          p.kind = "authorizeWrite" /\ att' = authorizeWrite_done(att, p, err)
    /\ UNCHANGED <<hci, gatt, client, cache, store, link, reads, srv, fifo, info, codec>>

WriteDone ==
    /\ Room
    /\ \E p \in att.pending, err \in AttributeErrors :
          p.kind = "write" /\ att' = write_done(att, p, err)
    /\ UNCHANGED <<hci, gatt, client, cache, store, link, reads, srv, fifo, info, codec>>

AuthorizePrepareDone ==
    /\ Room
    /\ \E p \in att.pending, err \in AttributeErrors :
          p.kind = "authorizePrepare" /\ att' = authorizePrepare_done(att, p, err)
    /\ UNCHANGED <<hci, gatt, client, cache, store, link, reads, srv, fifo, info, codec>>

ConfirmDone ==
    /\ Room
    /\ \E p \in att.pending : p.kind = "confirm" /\ att' = confirm_done(att, p)
    /\ UNCHANGED <<hci, gatt, client, cache, store, link, reads, srv, fifo, info, codec>>

SentCallback ==
    /\ ~att.flushing /\ att.sentCallbacks # <<>>
    /\ att' = sentCallback([att EXCEPT !.sentCallbacks = Tail(@)], Head(att.sentCallbacks))
    /\ UNCHANGED <<hci, gatt, client, cache, store, link, reads, srv, fifo, info, codec>>

RequestTimeout ==
    /\ ~att.flushing /\ att.requestTimer
    /\ att' = attTimeout([att EXCEPT !.requestTimer = FALSE])
    /\ UNCHANGED <<hci, gatt, client, cache, store, link, reads, srv, fifo, info, codec>>

IndicationTimeout ==
    /\ ~att.flushing /\ att.indicationTimer
    /\ att' = attTimeout([att EXCEPT !.indicationTimer = FALSE])
    /\ UNCHANGED <<hci, gatt, client, cache, store, link, reads, srv, fifo, info, codec>>

(***************************************************************************)
(* The ATT engine as a client: requests with a response the callback       *)
(* validates, and the PDUs the peer may answer with.  format is byte 1 of  *)
(* a FIND_INFORMATION_RESPONSE.  Here every inbound PDU is a step, also    *)
(* one the data handler drops.                                             *)
(***************************************************************************)
Response(op, len, format, mtu) ==
    [op |-> op, len |-> len, handle |-> 0, offset |-> 0, mtu |-> mtu, flags |-> 0,
     handles |-> <<>>, format |-> format]

ResponsePdus ==
    {Response(ERROR_RESPONSE, l, 0, 0) : l \in {4, 5, 6}}
    \cup {Response(EXCHANGE_MTU_RESPONSE, l, 0, 100) : l \in {2, 3, 4}}
    \cup {Response(FIND_INFORMATION_RESPONSE, l, f, 0) : l \in {2, 5, 6, 8, 10, 20}, f \in 0..3}
    \cup {Response(READ_RESPONSE, l, 0, 0) : l \in {1, 2}}

FindInformation ==
    /\ Room
    /\ Op(enqueueRequest(att, [op |-> FIND_INFORMATION_REQUEST, id |-> att.nOps + 1, len |-> 5]))
    /\ UNCHANGED <<hci, gatt, client, cache, store, link, reads, srv, fifo, info, codec>>

ReceiveResponse ==
    /\ Room
    /\ att.nOps < MaxOps
    /\ \E data \in ResponsePdus : att' = [onData(att, data) EXCEPT !.nOps = att.nOps + 1]
    /\ UNCHANGED <<hci, gatt, client, cache, store, link, reads, srv, fifo, info, codec>>

(***************************************************************************)
(* Read Multiple requests on one connection: a request for two to          *)
(* MaxReadHandles handles arrives, the attributes that may be read report  *)
(* a value or an error one after the other, and the reply is reported      *)
(* sent.                                                                   *)
(***************************************************************************)
MaxReadHandles == 3     \* handles in one Read Multiple request
MaxMultipleReads == 2   \* Read Multiple requests on the connection

ReadErrors == {"OK", "INSUFFICIENT_AUTHORIZATION", "INSUFFICIENT_ENCRYPTION", "UNLIKELY_ERROR"}

ReadMultiplePdu(handles) ==
    [In(READ_MULTIPLE_REQUEST, 1 + 2 * Len(handles), 0, 0, 0, 0) EXCEPT !.handles = handles]

\* handle 3 is absent from the database
HandleLists == UNION {[1..n -> {1, 3, 4, 5}] : n \in 2..MaxReadHandles}

ReceiveReadMultiple ==
    /\ Room /\ att.nOps < MaxMultipleReads
    /\ \E handles \in HandleLists :
          LET s == onData(att, ReadMultiplePdu(handles))
          IN  s # att /\ att' = [s EXCEPT !.nOps = att.nOps + 1]
    /\ UNCHANGED <<hci, gatt, client, cache, store, link, reads, srv, fifo, info, codec>>

ReadMultipleDone ==
    /\ Room
    /\ \E p \in att.pending, err \in ReadErrors :
          p.kind = "readMultiple" /\ att' = readMultiple_done(att, p, err)
    /\ UNCHANGED <<hci, gatt, client, cache, store, link, reads, srv, fifo, info, codec>>

(***************************************************************************)
(* A long run of Prepare Write requests on one connection: each request    *)
(* arrives, is authorised or refused by the attribute, and its reply is    *)
(* reported sent; an Execute Write request with flag 0 may cancel the      *)
(* queue in between.  `out` holds the PDUs handed over since the last      *)
(* request arrived.                                                        *)
(***************************************************************************)
MaxPrepares == 130      \* inbound PDUs of the run

PreparePdu == In(PREPARE_WRITE_REQUEST, 6, 1, 0, 0, 0)

CancelPdu == In(EXECUTE_WRITE_REQUEST, 2, 0, 0, 0, 0)

PrepareOp(data) ==
    LET s == onData([att EXCEPT !.out = <<>>], data)
    IN  /\ att.nOps < MaxPrepares
        /\ ~att.isHandlingRequest
        /\ att' = [s EXCEPT !.nOps = att.nOps + 1]
        /\ UNCHANGED <<hci, gatt, client, cache, store, link, reads, srv, fifo, info, codec>>

PrepareWriteRequest == PrepareOp(PreparePdu)

ExecuteCancel == att.prepareWriteQueueSize > 0 /\ PrepareOp(CancelPdu)

PrepareAuthorized ==
    /\ \E p \in att.pending, err \in AttributeErrors :
          p.kind = "authorizePrepare" /\ att' = authorizePrepare_done(att, p, err)
    /\ UNCHANGED <<hci, gatt, client, cache, store, link, reads, srv, fifo, info, codec>>

PrepareSent ==
    /\ att.sentCallbacks # <<>>
    /\ att' = sentCallback([att EXCEPT !.sentCallbacks = Tail(@)], Head(att.sentCallbacks))
    /\ UNCHANGED <<hci, gatt, client, cache, store, link, reads, srv, fifo, info, codec>>

(***************************************************************************)
(* The HCI adapter (HciAdapter) and its connections (AclConnection).       *)
(*                                                                         *)
(* onData is modelled as a method of the adapter: `this` is the adapter    *)
(* in every handler below.  (The constructor registers the method with     *)
(* transport.on('data', this.onData), without binding it.)                 *)
(***************************************************************************)
COMMAND == 1
ACLDATA == 2
EVENT == 4
DISCONNECTION_COMPLETE == 5
CMD_COMPLETE == 14
CMD_STATUS == 15
HARDWARE_ERROR == 16
NUMBER_OF_COMPLETE_PACKETS == 19
LE_META == 62
LE_CONNECTION_COMPLETE == 1
DISCONNECT == 1030
RESET == 3075
READ_BUFFER_SIZE == 4101
LE_READ_BUFFER_SIZE == 8194
LE_SET_ADVERTISING_ENABLE == 8202
MASTER == 0
SLAVE == 1

\* Bounds of the HCI model.
MaxHciOps == 5      \* API calls made and packets received from the transport
MaxAclOps == 4      \* of them, at most this many come before an inbound ACL packet
MaxBuffers == 3     \* the largest buffer count a controller reports
MaxPayload == 2     \* the longest payload of an inbound L2CAP PDU

\* connection handles the controller hands out; a command without a handle
\* carries 0 for null
HciHandles == {1, 2}

NoCommand == [opcode |-> 0, id |-> 0, handle |-> 0, ignoreResponse |-> FALSE]

\* the remote side is sending nothing
NoRemote == [handle |-> 0, cid |-> 0, payload |-> <<>>, first |-> 0, delivered |-> 0, rest |-> <<>>]

\* new AclConnection(handle, role); totalLength is incomingL2CAPBuffer.totalLength
AclConnection(handle, role) ==
    [handle |-> handle,
     role |-> role,
     disconnecting |-> FALSE,
     incomingL2CAPBuffer |-> <<>>,
     totalLength |-> 0,
     outgoingL2CAPBuffer |-> Queue_new,
     outgoingL2CAPPacketsInController |-> <<>>]

(***************************************************************************)
(* HciAdapter: the adapter after construction.                             *)
(*                                                                         *)
(* Program state: the fields of the class; activeConnections is a function *)
(* from the handles in use to their AclConnection, advCallback and         *)
(* connCallback tell whether the field holds a callback, and               *)
(* hasSeparateLeAclBuffers is "null", "true" or "false".                   *)
(*                                                                         *)
(* Environment: written (the packets given to transport.write, oldest      *)
(* first), answered (ids of the commands whose Command Complete / Command  *)
(* Status event was processed), abandoned (ids of the commands a Hardware  *)
(* Error event removed from the pending slot), called (ids of the commands *)
(* whose callback was invoked), hardwareErrors (the calls of               *)
(* hardwareErrorCallback), errorAt (the number of packets that were        *)
(* written before the last of them), sendDataCalls (the id of each         *)
(* sendData call that queued a PDU, with the bytes of the PDU, its handle  *)
(* and the aclMtu of the time),                                            *)
(* sentCallbacks and completeCallbacks (the ids of *)
(* the sendData calls whose sentCallback and completeCallback were         *)
(* invoked, in the order of the calls), controllerBuffers and              *)
(* buffersRead (the buffer count the controller reported, once it has),    *)
(* inController (per handle, the ACL packets written and not yet reported  *)
(* complete by the controller), emitted (the 'data' events emitted since   *)
(* the remote side began its PDU), remote (the PDU the remote side is      *)
(* sending: its connection, CID and payload, the length of its first       *)
(* fragment, the fragments delivered and the bytes still to come), and     *)
(* nOps, the number of API calls and packets so far; the n-th carries      *)
(* the id n.                                                               *)
(***************************************************************************)
HciAdapter ==
    [isStopped |-> FALSE,
     pendingCommand |-> NoCommand,
     commandQueue |-> <<>>,
     activeConnections |-> <<>>,
     hasSeparateLeAclBuffers |-> "null",
     aclMtu |-> 0,
     numFreeBuffers |-> 0,
     advCallback |-> FALSE,
     connCallback |-> FALSE,
     \* environment
     written |-> <<>>,
     answered |-> {},
     abandoned |-> {},
     called |-> {},
     hardwareErrors |-> 0,
     errorAt |-> 0,
     sendDataCalls |-> {},
     sentCallbacks |-> <<>>,
     completeCallbacks |-> <<>>,
     controllerBuffers |-> 0,
     buffersRead |-> FALSE,
     inController |-> [handle \in HciHandles |-> 0],
     emitted |-> <<>>,
     remote |-> NoRemote,
     nOps |-> 0]

\* a packet given to transport.write
Written(type, id, opcode, handle, isFirst, len) ==
    [type |-> type, id |-> id, opcode |-> opcode, handle |-> handle,
     isFirst |-> isFirst, len |-> len]

\* cmd is [opcode, id, handle]; the callback is the one the API method of
\* that opcode passes
reallySendCommand(h, cmd) ==
    IF h.isStopped THEN h
    ELSE [h EXCEPT !.pendingCommand = [opcode |-> cmd.opcode, id |-> cmd.id,
                                       handle |-> cmd.handle, ignoreResponse |-> FALSE],
                   !.written = Append(@, Written(COMMAND, cmd.id, cmd.opcode, cmd.handle,
                                                 FALSE, 0))]

\* sendCommand that writes every command at once
sendCommand_unqueued(h, cmd) ==
    IF h.isStopped THEN h ELSE reallySendCommand(h, cmd)

sendCommand(h, cmd) ==
    IF h.isStopped THEN h
    ELSE IF h.pendingCommand # NoCommand
    THEN [h EXCEPT !.commandQueue = Append(@, cmd)]
    ELSE reallySendCommand(h, cmd)

\* conn is the handle of the connection passed in, 0 when none is.  rnd
\* stands for Math.random: the handle drawn in each turn of the loop, taken
\* when it is a candidate (with two handles the other one is the only
\* candidate when it is not).
RECURSIVE triggerSendPackets(_, _, _)
triggerSendPackets(h, conn, rnd) ==
    IF h.numFreeBuffers = 0 \/ h.isStopped THEN h
    ELSE LET candidates ==
                 {c \in DOMAIN h.activeConnections :
                     /\ Queue_getLength(h.activeConnections[c].outgoingL2CAPBuffer) # 0
                     /\ ~h.activeConnections[c].disconnecting}
             break == IF conn = 0 THEN candidates = {}
                      ELSE h.activeConnections[conn].disconnecting
             handle == IF conn # 0 THEN conn
                       ELSE IF rnd # <<>> /\ Head(rnd) \in candidates THEN Head(rnd)
                       ELSE CHOOSE c \in candidates : TRUE
         IN  IF break THEN h
             ELSE LET selectedConn == h.activeConnections[handle]
                      item == Queue_shift_elem(selectedConn.outgoingL2CAPBuffer)
                  IN  IF item = undefined THEN h
                      ELSE triggerSendPackets(
                               [h EXCEPT !.numFreeBuffers = @ - 1,
                                         !.activeConnections[handle].outgoingL2CAPBuffer =
                                             Queue_shift(@),
                                         !.activeConnections[handle]
                                             .outgoingL2CAPPacketsInController =
                                             Append(@, item.completeCallback),
                                         !.written = Append(@, Written(ACLDATA, item.id, 0, handle,
                                                                       item.isFirst, item.len)),
                                         !.sentCallbacks =
                                             IF item.sentCallback # 0
                                             THEN Append(@, item.sentCallback) ELSE @,
                                         !.inController[handle] = @ + 1],
                               conn, IF rnd # <<>> THEN Tail(rnd) ELSE rnd)

\* data is `length` bytes long; the fragments carry the id of the call.
\* An unknown handle makes conn undefined and the first push throws.
sendData(h, handle, id, length) ==
    IF h.isStopped THEN h
    ELSE IF handle \notin DOMAIN h.activeConnections THEN h
    ELSE LET total == 4 + length
             n == (total + h.aclMtu - 1) \div h.aclMtu
             slice(k) == [isFirst |-> k = 1,
                          len |-> Min(k * h.aclMtu, total) - (k - 1) * h.aclMtu,
                          id |-> id,
                          sentCallback |-> IF k = n THEN id ELSE 0,
                          completeCallback |-> IF k = n THEN id ELSE 0]
         IN  triggerSendPackets(
                 [h EXCEPT !.activeConnections[handle].outgoingL2CAPBuffer.q =
                               @ \o [k \in 1..n |-> slice(k)],
                           !.sendDataCalls = @ \cup {[id |-> id, total |-> total, handle |-> handle,
                                                       aclMtu |-> h.aclMtu]}],
                 handle, <<>>)

\* the callback reset passes to sendCommand
reset_callback(h, status) ==
    IF status = 0
    THEN [h EXCEPT !.activeConnections = <<>>,
                   !.hasSeparateLeAclBuffers = "null",
                   !.aclMtu = 0,
                   !.numFreeBuffers = 0,
                   !.advCallback = FALSE,
                   !.connCallback = FALSE,
                   !.controllerBuffers = 0,
                   !.buffersRead = FALSE,
                   !.inController = [handle \in HciHandles |-> 0],
                   !.remote = NoRemote]
    ELSE h

\* the callback readBufferSize passes to sendCommand; an event without the
\* return parameters makes the reader throw at the first r.u16()
readBufferSize_callback(h, status, pkt) ==
    IF status # 0 \/ ~pkt.hasParams THEN h
    ELSE IF h.hasSeparateLeAclBuffers = "false" /\ h.aclMtu = 0
    THEN [h EXCEPT !.aclMtu = Min(pkt.packetLength, 1023),
                   !.numFreeBuffers = pkt.numPackets,
                   !.controllerBuffers = pkt.numPackets,
                   !.buffersRead = TRUE]
    ELSE h

\* the callback leReadBufferSize passes to sendCommand
leReadBufferSize_callback(h, status, pkt) ==
    IF status # 0 \/ ~pkt.hasParams THEN h
    ELSE LET h1 == IF h.hasSeparateLeAclBuffers = "null"
                   THEN [h EXCEPT !.aclMtu = Min(pkt.packetLength, 1023),
                                  !.numFreeBuffers = pkt.numPackets,
                                  !.controllerBuffers = pkt.numPackets,
                                  !.buffersRead = TRUE]
                   ELSE h
         IN  [h1 EXCEPT !.hasSeparateLeAclBuffers =
                            IF pkt.packetLength # 0 THEN "true" ELSE "false"]

\* the callback leSetAdvertisingEnable(true, ...) passes to sendCommand
leSetAdvertisingEnable_callback(h, status) ==
    IF status = 0 THEN [h EXCEPT !.advCallback = TRUE] ELSE h

\* pc.callback(status, r)
commandCallback(h, pc, status, pkt) ==
    CASE pc.opcode = RESET -> reset_callback(h, status)
      [] pc.opcode = READ_BUFFER_SIZE -> readBufferSize_callback(h, status, pkt)
      [] pc.opcode = LE_READ_BUFFER_SIZE -> leReadBufferSize_callback(h, status, pkt)
      [] pc.opcode = LE_SET_ADVERTISING_ENABLE -> leSetAdvertisingEnable_callback(h, status)
      [] OTHER -> h

\* onData, a Command Complete or Command Status event
onData_command(h, pkt) ==
    IF h.pendingCommand = NoCommand \/ h.pendingCommand.opcode # pkt.opcode THEN h
    ELSE LET pc == h.pendingCommand
             h1 == [h EXCEPT !.pendingCommand = NoCommand, !.answered = @ \cup {pc.id},
                             !.called = IF ~pc.ignoreResponse THEN @ \cup {pc.id} ELSE @]
             h2 == IF Len(h1.commandQueue) # 0
                   THEN reallySendCommand([h1 EXCEPT !.commandQueue = Tail(@)],
                                          Head(h1.commandQueue))
                   ELSE h1
         IN  IF ~pc.ignoreResponse THEN commandCallback(h2, pc, pkt.status, pkt) ELSE h2

\* handleDisconnectionComplete that leaves the commands of the connection
\* where they are
handleDisconnectionComplete_keepsCommands(h, pkt, rnd) ==
    IF pkt.status # 0 THEN h
    ELSE IF pkt.handle \notin DOMAIN h.activeConnections THEN h
    ELSE LET conn == h.activeConnections[pkt.handle]
         IN  triggerSendPackets(
                 [h EXCEPT !.activeConnections =
                               [c \in DOMAIN @ \ {pkt.handle} |-> @[c]],
                           !.numFreeBuffers = @ + Len(conn.outgoingL2CAPPacketsInController),
                           !.inController[pkt.handle] = 0,
                           !.remote = IF @.handle = pkt.handle THEN NoRemote ELSE @],
                 0, rnd)

handleDisconnectionComplete(h, pkt, rnd) ==
    IF pkt.status # 0 THEN h
    ELSE IF pkt.handle \notin DOMAIN h.activeConnections THEN h
    ELSE LET conn == h.activeConnections[pkt.handle]
             Other(cmd) == cmd.handle # pkt.handle
         IN  triggerSendPackets(
                 [h EXCEPT !.activeConnections =
                               [c \in DOMAIN @ \ {pkt.handle} |-> @[c]],
                           !.commandQueue = SelectSeq(@, Other),
                           !.pendingCommand =
                               IF @ # NoCommand /\ @.handle = pkt.handle
                               THEN [@ EXCEPT !.ignoreResponse = TRUE] ELSE @,
                           !.numFreeBuffers = @ + Len(conn.outgoingL2CAPPacketsInController),
                           !.inController[pkt.handle] = 0,
                           !.remote = IF @.handle = pkt.handle THEN NoRemote ELSE @],
                 0, rnd)

\* handleHardwareError that leaves the command queue as it is
handleHardwareError_keepsQueue(h) ==
    [h EXCEPT !.pendingCommand = NoCommand,
              !.hardwareErrors = @ + 1,
              !.errorAt = Len(h.written),
              !.abandoned = IF h.pendingCommand # NoCommand
                            THEN @ \cup {h.pendingCommand.id} ELSE @]

handleHardwareError(h) ==
    [h EXCEPT !.pendingCommand = NoCommand,
              !.commandQueue = <<>>,
              !.hardwareErrors = @ + 1,
              !.errorAt = Len(h.written),
              !.abandoned = IF h.pendingCommand # NoCommand
                            THEN @ \cup {h.pendingCommand.id} ELSE @]

\* the loop of handleNumberOfCompletePackets without the clamp of
\* numCompleted to the length of the in-controller list
RECURSIVE handleNumberOfCompletePackets_loop_unclamped(_, _)
handleNumberOfCompletePackets_loop_unclamped(h, completed) ==
    IF completed = <<>> THEN h
    ELSE LET handle == Head(completed)[1]
             reported == Head(completed)[2]
             h1 == IF handle \in HciHandles
                   THEN [h EXCEPT !.inController[handle] = Max(0, @ - reported)]
                   ELSE h
         IN  IF handle \notin DOMAIN h.activeConnections
             THEN handleNumberOfCompletePackets_loop_unclamped(h1, Tail(completed))
             ELSE handleNumberOfCompletePackets_loop_unclamped(
                      [h1 EXCEPT !.numFreeBuffers = @ + reported,
                                 !.completeCallbacks =
                                     @ \o SelectSeq(
                                         SubSeq(h.activeConnections[handle]
                                                    .outgoingL2CAPPacketsInController,
                                                1, Min(reported,
                                                       Len(h.activeConnections[handle]
                                                              .outgoingL2CAPPacketsInController))),
                                         LAMBDA cb : cb # 0),
                                 !.activeConnections[handle]
                                     .outgoingL2CAPPacketsInController =
                                     SubSeq(@, Min(reported, Len(@)) + 1, Len(@))],
                      Tail(completed))

\* pkt.completed is the list of <<handle, numCompleted>> pairs of the event
RECURSIVE handleNumberOfCompletePackets_loop(_, _)
handleNumberOfCompletePackets_loop(h, completed) ==
    IF completed = <<>> THEN h
    ELSE LET handle == Head(completed)[1]
             reported == Head(completed)[2]
             h1 == IF handle \in HciHandles
                   THEN [h EXCEPT !.inController[handle] = Max(0, @ - reported)]
                   ELSE h
         IN  IF handle \notin DOMAIN h.activeConnections
             THEN handleNumberOfCompletePackets_loop(h1, Tail(completed))
             ELSE LET conn == h.activeConnections[handle]
                      numCompleted ==
                          IF reported > Len(conn.outgoingL2CAPPacketsInController)
                          THEN Len(conn.outgoingL2CAPPacketsInController) ELSE reported
                  IN  handleNumberOfCompletePackets_loop(
                          [h1 EXCEPT !.numFreeBuffers = @ + numCompleted,
                                     !.completeCallbacks =
                                         @ \o SelectSeq(
                                             SubSeq(conn.outgoingL2CAPPacketsInController,
                                                    1, numCompleted),
                                             LAMBDA cb : cb # 0),
                                     !.activeConnections[handle]
                                         .outgoingL2CAPPacketsInController =
                                         SubSeq(@, numCompleted + 1, Len(@))],
                          Tail(completed))

\* the handler without the call of triggerSendPackets at its end
handleNumberOfCompletePackets_untriggered(h, pkt, rnd) ==
    handleNumberOfCompletePackets_loop(h, pkt.completed)

handleNumberOfCompletePackets(h, pkt, rnd) ==
    triggerSendPackets(handleNumberOfCompletePackets_loop(h, pkt.completed), 0, rnd)

\* id is the id a DISCONNECT command sent from here carries.  A status that
\* is not 0 is one other than ADVERTISING_TIMEOUT; a central connection
\* finds connCallback and calls it (a call of null throws, after the
\* connection was entered).
handleLeConnectionComplete(h, pkt, id) ==
    IF pkt.status # 0 THEN [h EXCEPT !.connCallback = FALSE]
    ELSE IF pkt.handle \in DOMAIN h.activeConnections THEN h
    ELSE LET h1 == [h EXCEPT !.activeConnections =
                                 (pkt.handle :> AclConnection(pkt.handle, pkt.role)) @@ @]
         IN  IF pkt.role = MASTER THEN [h1 EXCEPT !.connCallback = FALSE]
             ELSE IF ~h.advCallback
             THEN sendCommand([h1 EXCEPT !.advCallback = FALSE],
                              [opcode |-> DISCONNECT, id |-> id, handle |-> pkt.handle])
             ELSE [h1 EXCEPT !.advCallback = FALSE]

\* Buffer.concat(list)
RECURSIVE Buffer_concat(_)
Buffer_concat(list) ==
    IF list = <<>> THEN <<>> ELSE Head(list) \o Buffer_concat(Tail(list))

\* aclConn.emit('data', cid, payload) on the connection of that handle
emit_data(h, handle, cid, payload) ==
    [h EXCEPT !.emitted = Append(@, [handle |-> handle, cid |-> cid, payload |-> payload])]

\* the ACL data branch of onData that drops a first fragment shorter than
\* the L2CAP header instead of keeping it
onData_ACLDATA_dropsShortFirst(h, pkt) ==
    LET conhdl == pkt.handle
        len == Len(pkt.bytes)
    IN  IF conhdl \notin DOMAIN h.activeConnections THEN h
        ELSE LET aclConn == h.activeConnections[conhdl]
                 ib == aclConn.incomingL2CAPBuffer
                 Store(buffer, totalLength) ==
                     [h EXCEPT !.activeConnections[conhdl].incomingL2CAPBuffer = buffer,
                               !.activeConnections[conhdl].totalLength = totalLength]
             IN  IF pkt.pb = 2
                 THEN IF len < 4 THEN Store(<<>>, 0)
                      ELSE LET l2capLength == pkt.bytes[1] + 256 * pkt.bytes[2]
                               cid == pkt.bytes[3] + 256 * pkt.bytes[4]
                           IN  IF 4 + l2capLength = len
                               THEN emit_data(Store(<<>>, 0), conhdl, cid,
                                              SubSeq(pkt.bytes, 5, len))
                               ELSE IF 4 + l2capLength < len THEN Store(<<>>, 0)
                               ELSE Store(<<pkt.bytes>>, len)
                 ELSE IF pkt.pb = 1
                 THEN IF Len(ib) = 0 THEN h
                      ELSE LET ib1 == Append(ib, pkt.bytes)
                               totalLength == aclConn.totalLength + len
                               l2capLength == ib1[1][1] + 256 * ib1[1][2]
                               completePacket == SubSeq(Buffer_concat(ib1), 1, totalLength)
                               cid == completePacket[3] + 256 * completePacket[4]
                           IN  IF 4 + l2capLength = totalLength
                               THEN emit_data(Store(<<>>, 0), conhdl, cid,
                                              SubSeq(completePacket, 5, totalLength))
                               ELSE Store(ib1, totalLength)
                 ELSE h

\* onData, an ACL data packet: pkt.bytes is the data after the 4-byte ACL
\* header, whose length field `len` says how long it is
onData_ACLDATA(h, pkt) ==
    LET conhdl == pkt.handle
        len == Len(pkt.bytes)
    IN  IF conhdl \notin DOMAIN h.activeConnections THEN h
        ELSE LET aclConn == h.activeConnections[conhdl]
                 ib == aclConn.incomingL2CAPBuffer
                 Store(buffer, totalLength) ==
                     [h EXCEPT !.activeConnections[conhdl].incomingL2CAPBuffer = buffer,
                               !.activeConnections[conhdl].totalLength = totalLength]
             IN  IF pkt.pb = 2
                 THEN IF len < 4 THEN Store(<<pkt.bytes>>, len)
                      ELSE LET l2capLength == pkt.bytes[1] + 256 * pkt.bytes[2]
                               cid == pkt.bytes[3] + 256 * pkt.bytes[4]
                           IN  IF 4 + l2capLength = len
                               THEN emit_data(Store(<<>>, 0), conhdl, cid,
                                              SubSeq(pkt.bytes, 5, len))
                               ELSE IF 4 + l2capLength < len THEN Store(<<>>, 0)
                               ELSE Store(<<pkt.bytes>>, len)
                 ELSE IF pkt.pb = 1
                 THEN IF Len(ib) = 0 THEN h
                      ELSE LET last == ib[Len(ib)]
                               ib1 == IF Len(last) < 4
                                      THEN [ib EXCEPT ![Len(ib)] = last \o pkt.bytes]
                                      ELSE Append(ib, pkt.bytes)
                               totalLength == aclConn.totalLength + len
                               l2capLength == ib1[1][1] + 256 * ib1[1][2]
                               completePacket == SubSeq(Buffer_concat(ib1), 1, totalLength)
                               cid == completePacket[3] + 256 * completePacket[4]
                           IN  IF totalLength >= 4 /\ 4 + l2capLength = totalLength
                               THEN emit_data(Store(<<>>, 0), conhdl, cid,
                                              SubSeq(completePacket, 5, totalLength))
                               ELSE Store(ib1, totalLength)
                 ELSE h

\* a packet the transport delivers, as the fields onData reads from it
Packet ==
    [packetType |-> EVENT, eventCode |-> 0, subevent |-> 0, opcode |-> 0, status |-> 0,
     hasParams |-> FALSE, packetLength |-> 0, numPackets |-> 0, handle |-> 0, role |-> 0,
     completed |-> <<>>, pb |-> 0, bytes |-> <<>>]

\* the listener of the transport's 'data' event
HciAdapter_onData(h, pkt, id, rnd) ==
    IF pkt.packetType = EVENT
    THEN IF pkt.eventCode \in {CMD_COMPLETE, CMD_STATUS} THEN onData_command(h, pkt)
         ELSE CASE pkt.eventCode = DISCONNECTION_COMPLETE ->
                       handleDisconnectionComplete(h, pkt, rnd)
                [] pkt.eventCode = HARDWARE_ERROR -> handleHardwareError(h)
                [] pkt.eventCode = NUMBER_OF_COMPLETE_PACKETS ->
                       handleNumberOfCompletePackets(h, pkt, rnd)
                [] pkt.eventCode = LE_META /\ pkt.subevent = LE_CONNECTION_COMPLETE ->
                       handleLeConnectionComplete(h, pkt, id)
                [] OTHER -> h
    ELSE IF pkt.packetType = ACLDATA THEN onData_ACLDATA(h, pkt)
    ELSE h

stop(h) == IF h.isStopped THEN h ELSE [h EXCEPT !.isStopped = TRUE]

(***************************************************************************)
(* The inputs of the HCI adapter.                                          *)
(***************************************************************************)
Statuses == {0, 2}

PacketLengths == {0, 4, 2000}

NumPackets == {1, MaxBuffers}

DataLengths == {1, 5}

\* the draws of Math.random in one call of triggerSendPackets: one for
\* each buffer that can be free
Draws == [1..hci.controllerBuffers -> HciHandles]

\* what a Number Of Completed Packets event reports: one or two handles,
\* known or not, with counts up to more than was ever outstanding
Completions ==
    LET pairs == {1, 2, 3} \X {1, MaxBuffers + 1}
    IN  {<<p>> : p \in pairs} \cup {<<p, q>> : p \in pairs, q \in {<<1, 1>>, <<2, 1>>}}

\* an L2CAP PDU: 2-byte length, 2-byte CID, payload
L2capPdu(cid, payload) ==
    <<Len(payload) % 256, Len(payload) \div 256, cid % 256, cid \div 256>> \o payload

Payloads == UNION {[1..n -> {0, 7}] : n \in 0..MaxPayload}

\* fragments that belong to no PDU in transit: a short start, the start of
\* a longer PDU, a whole PDU, one longer than its header says
StrayFragments == {<<1>>, <<2, 0, 4, 0>>, <<1, 0, 4, 0, 9>>, <<0, 0, 4, 0, 9>>}

\* an API call or a packet that takes the adapter from hci to s.  A PDU of
\* the remote side that is complete stops being watched at the next one.
HciOp(s) ==
    /\ hci.nOps < MaxHciOps
    /\ s # hci
    /\ hci' = [s EXCEPT !.nOps = hci.nOps + 1,
                        !.remote = IF s.remote.rest = <<>> THEN NoRemote ELSE @,
                        !.emitted = IF s.remote.rest = <<>> THEN <<>> ELSE @]
    /\ UNCHANGED <<att, gatt, client, cache, store, link, reads, srv, fifo, info, codec>>

Command(opcode, handle) == [opcode |-> opcode, id |-> hci.nOps + 1, handle |-> handle]

AclPacket(handle, pb, bytes) ==
    [Packet EXCEPT !.packetType = ACLDATA, !.handle = handle, !.pb = pb, !.bytes = bytes]

(***************************************************************************)
(* Actions of the HCI adapter: the API calls, then the packets the         *)
(* transport delivers (none once stop() removed the listener).             *)
(***************************************************************************)
Reset == HciOp(sendCommand(hci, Command(RESET, 0)))

ReadBufferSize == HciOp(sendCommand(hci, Command(READ_BUFFER_SIZE, 0)))

LeReadBufferSize == HciOp(sendCommand(hci, Command(LE_READ_BUFFER_SIZE, 0)))

LeSetAdvertisingEnable == HciOp(sendCommand(hci, Command(LE_SET_ADVERTISING_ENABLE, 0)))

Disconnect == \E handle \in HciHandles : HciOp(sendCommand(hci, Command(DISCONNECT, handle)))

\* with aclMtu = 0 the fragmenting loop of sendData never ends
SendData ==
    /\ hci.aclMtu > 0
    /\ \E handle \in HciHandles, length \in DataLengths :
          HciOp(sendData(hci, handle, hci.nOps + 1, length))

Stop == HciOp(stop(hci))

CommandEvent ==
    /\ ~hci.isStopped
    /\ \E eventCode \in {CMD_COMPLETE, CMD_STATUS},
          opcode \in {DISCONNECT, RESET, READ_BUFFER_SIZE, LE_READ_BUFFER_SIZE,
                      LE_SET_ADVERTISING_ENABLE},
          status \in Statuses, packetLength \in PacketLengths, numPackets \in NumPackets :
          HciOp(HciAdapter_onData(
                    hci,
                    [Packet EXCEPT !.eventCode = eventCode, !.opcode = opcode,
                                   !.status = status, !.hasParams = eventCode = CMD_COMPLETE,
                                   !.packetLength = packetLength, !.numPackets = numPackets],
                    hci.nOps + 1, <<>>))

DisconnectionComplete ==
    /\ ~hci.isStopped
    /\ \E status \in Statuses, handle \in HciHandles, rnd \in Draws :
          HciOp(HciAdapter_onData(
                    hci,
                    [Packet EXCEPT !.eventCode = DISCONNECTION_COMPLETE, !.status = status,
                                   !.handle = handle],
                    hci.nOps + 1, rnd))

HardwareError ==
    /\ ~hci.isStopped
    /\ HciOp(HciAdapter_onData(hci, [Packet EXCEPT !.eventCode = HARDWARE_ERROR],
                               hci.nOps + 1, <<>>))

NumberOfCompletePackets ==
    /\ ~hci.isStopped
    /\ \E completed \in Completions, rnd \in Draws :
          HciOp(HciAdapter_onData(
                    hci,
                    [Packet EXCEPT !.eventCode = NUMBER_OF_COMPLETE_PACKETS,
                                   !.completed = completed],
                    hci.nOps + 1, rnd))

LeConnectionComplete ==
    /\ ~hci.isStopped
    /\ \E status \in Statuses, handle \in HciHandles, role \in {MASTER, SLAVE} :
          HciOp(HciAdapter_onData(
                    hci,
                    [Packet EXCEPT !.eventCode = LE_META, !.subevent = LE_CONNECTION_COMPLETE,
                                   !.status = status, !.handle = handle, !.role = role],
                    hci.nOps + 1, <<>>))

\* the remote side begins a PDU on an active connection: its first
\* fragment, of any length from one byte up to the whole PDU
RemoteSend ==
    /\ ~hci.isStopped /\ hci.nOps < MaxAclOps /\ hci.remote.rest = <<>>
    /\ \E handle \in DOMAIN hci.activeConnections, cid \in {4, 260}, payload \in Payloads :
          \E k \in 1..(4 + Len(payload)) :
              LET pdu == L2capPdu(cid, payload)
                  s == HciAdapter_onData([hci EXCEPT !.emitted = <<>>],
                                         AclPacket(handle, 2, SubSeq(pdu, 1, k)), 0, <<>>)
              IN  hci' = [s EXCEPT !.remote = [handle |-> handle, cid |-> cid,
                                               payload |-> payload,
                                               first |-> k,
                                               delivered |-> 1,
                                               rest |-> SubSeq(pdu, k + 1, Len(pdu))],
                                   !.nOps = hci.nOps + 1]
    /\ UNCHANGED <<att, gatt, client, cache, store, link, reads, srv, fifo, info, codec>>

\* the next fragment of the PDU the remote side is sending, of any length
\* from one byte up to all that is left
DeliverFragment ==
    /\ ~hci.isStopped /\ hci.remote.rest # <<>>
    /\ \E k \in 1..Len(hci.remote.rest) :
          hci' = [HciAdapter_onData(hci, AclPacket(hci.remote.handle, 1,
                                                   SubSeq(hci.remote.rest, 1, k)), 0, <<>>)
                      EXCEPT !.remote.rest = SubSeq(@, k + 1, Len(@)),
                             !.remote.delivered = @ + 1]
    /\ UNCHANGED <<att, gatt, client, cache, store, link, reads, srv, fifo, info, codec>>

\* a fragment of no PDU in transit, on a connection that is receiving none
Stray ==
    /\ ~hci.isStopped /\ hci.nOps < MaxAclOps
    /\ \E handle \in {1, 2, 3}, pb \in {0, 1, 2}, bytes \in StrayFragments :
          /\ hci.remote.rest = <<>> \/ handle # hci.remote.handle
          /\ HciOp(HciAdapter_onData(hci, AclPacket(handle, pb, bytes), 0, <<>>))

(***************************************************************************)
(* The GATT server database (GattServerDb_legacy).  It lives in the record *)
(* `gatt`: allServices is the list of placed services in handle order,     *)
(* attDb the attributes, cccdValues what the storage module persisted,     *)
(* connection the one link to the peer device.  A set of property indexes  *)
(* stands for the properties bit mask (index i is bit 1 << i).  Descriptors *)
(* and attributes are held in runs: a descriptor run (uuid, count) is      *)
(* count descriptors of one type in a row, an attribute run (first, last,  *)
(* uuid) says that attDb has an attribute of that type at each handle of   *)
(* first..last.  The environment fields subscriptionChanges    *)
(* and sent record the calls the last handler made to onSubscriptionChange *)
(* and to the connection's _notify and _indicate, threw whether the last   *)
(* call of addServices threw, undone how many placements it took back.     *)
(***************************************************************************)
Null == 0 - 1    \* a startHandle that is null or undefined

\* Array.prototype.splice, positions counted from 1
splice(array, position, deleteCount, items) ==
    SubSeq(array, 1, position - 1) \o items
        \o SubSeq(array, position + deleteCount, Len(array))

\* the number of descriptors in a list of descriptor runs
RECURSIVE Count(_)
Count(runs) == IF runs = <<>> THEN 0 ELSE runs[1].count + Count(Tail(runs))

\* the user's objects handed to addServices
Descriptor(uuid, count) == [uuid |-> uuid, count |-> count]

Characteristic(uuid, properties, descriptors) ==
    [uuid |-> uuid, properties |-> properties, descriptors |-> descriptors]

Service(userObj, startHandle, includedServices, characteristics) ==
    [userObj |-> userObj, startHandle |-> startHandle,
     includedServices |-> includedServices, characteristics |-> characteristics]

\* the validate calls of the first loop of addServices: do they all pass
addServices_valid(allServices, services, si) ==
    LET service == services[si] IN
    /\ service.startHandle = Null \/ service.startHandle \in 1..65535
    /\ \A i \in DOMAIN service.includedServices :
          \/ \E j \in DOMAIN allServices :
                allServices[j].userObj = service.includedServices[i]
          \/ \E j \in DOMAIN services :
                services[j].userObj = service.includedServices[i]
    /\ \A i \in DOMAIN service.characteristics :
          LET c == service.characteristics[i] IN
          /\ c.properties \subseteq (0..8) \ {6}
          /\ \A j \in DOMAIN c.descriptors : c.descriptors[j].uuid # 10496
          /\ Count(SelectSeq(c.descriptors, LAMBDA d : d.uuid = 10498)) <= 1

\* the descriptors of a characteristic after the first loop: the user's, then
\* the CCCD (0x2902) and the Extended Properties descriptor (0x2900) if needed
addServices_descriptors(characteristic) ==
    characteristic.descriptors
      \o (IF /\ characteristic.properties \cap {4, 5} # {}
             /\ \A j \in DOMAIN characteristic.descriptors :
                    characteristic.descriptors[j].uuid # 10498
          THEN <<Descriptor(10498, 1)>> ELSE <<>>)
      \o (IF \E index \in characteristic.properties : index >= 7
          THEN <<Descriptor(10496, 1)>> ELSE <<>>)

\* a count that leaves out the descriptors addServices adds by itself
RECURSIVE addServices_count_userOnly(_, _)
addServices_count_userOnly(characteristics, i) ==
    IF i > Len(characteristics) THEN 0
    ELSE 2 + Count(characteristics[i].descriptors)
           + addServices_count_userOnly(characteristics, i + 1)

\* the entry of servicesToAdd the first loop builds for a service;
\* numberOfHandles is counted as the loop counts it, one step per push
RECURSIVE addServices_count(_, _)
addServices_count(characteristics, i) ==
    IF i > Len(characteristics) THEN 0
    ELSE LET c == characteristics[i] IN
         2 + Count(c.descriptors)
           + (IF /\ c.properties \cap {4, 5} # {}
                 /\ \A j \in DOMAIN c.descriptors : c.descriptors[j].uuid # 10498
              THEN 1 ELSE 0)
           + (IF \E index \in c.properties : index >= 7 THEN 1 ELSE 0)
           + addServices_count(characteristics, i + 1)

addServices_toAdd(service) ==
    [userObj |-> service.userObj,
     startHandle |-> service.startHandle,
     endHandle |-> Null,
     includedServices |-> service.includedServices,
     characteristics |->
        [i \in DOMAIN service.characteristics |->
            [uuid |-> service.characteristics[i].uuid,
             startHandle |-> Null,
             properties |-> service.characteristics[i].properties,
             descriptors |-> addServices_descriptors(service.characteristics[i]),
             cccds |-> <<>>]],
     numberOfHandles |->
        1 + Len(service.includedServices)
          + addServices_count(service.characteristics, 1)]

\* the scan of the sorted list for one service; list ends with the sentinel
\* {startHandle: 0xffff}, chosen is (chosenStartHandle, chosenPosition)
RECURSIVE addServices_scan(_, _, _, _, _)
addServices_scan(list, s, i, lastHandle, chosen) ==
    IF i > Len(list) THEN chosen
    ELSE LET fits == list[i].startHandle - lastHandle - 1 >= s.numberOfHandles
             first == IF fits /\ chosen[1] = 0 THEN <<lastHandle + 1, i>> ELSE chosen
         IN  IF /\ fits
                /\ s.startHandle # Null
                /\ lastHandle + 1 <= s.startHandle
                /\ s.startHandle + s.numberOfHandles <= list[i].startHandle
             THEN <<s.startHandle, i>>
             ELSE IF i = Len(list) THEN first
             ELSE addServices_scan(list, s, i + 1, list[i].endHandle, first)

\* a rollback that takes nothing out
addServices_rollback_none(allServices, insertPositions) == allServices

\* the second loop: place the services one by one, or take them all out again
RECURSIVE addServices_rollback(_, _)
addServices_rollback(allServices, insertPositions) ==
    IF insertPositions = <<>> THEN allServices
    ELSE addServices_rollback(
             splice(allServices, insertPositions[Len(insertPositions)], 1, <<>>),
             SubSeq(insertPositions, 1, Len(insertPositions) - 1))

RECURSIVE addServices_place(_, _, _, _)
addServices_place(allServices, servicesToAdd, si, insertPositions) ==
    IF si > Len(servicesToAdd)
    THEN [ok |-> TRUE, allServices |-> allServices, servicesToAdd |-> servicesToAdd,
          undone |-> 0]
    ELSE LET chosen == addServices_scan(Append(allServices, [startHandle |-> 65535]),
                                        servicesToAdd[si], 1, 0, <<0, 0>>)
             s == [servicesToAdd[si] EXCEPT
                      !.startHandle = chosen[1],
                      !.endHandle = chosen[1] + servicesToAdd[si].numberOfHandles - 1]
         IN  IF chosen[1] # 0
             THEN addServices_place(splice(allServices, chosen[2], 0, <<s>>),
                                    [servicesToAdd EXCEPT ![si] = s], si + 1,
                                    Append(insertPositions, chosen[2]))
             ELSE [ok |-> FALSE,
                   allServices |-> addServices_rollback(allServices, insertPositions),
                   servicesToAdd |-> servicesToAdd,
                   undone |-> Len(insertPositions)]

\* delete attDb[handle] for every handle of lo..hi
attDb_delete(db, lo, hi) ==
    UNION {{r \in {[a EXCEPT !.last = Min(a.last, lo - 1)],
                   [a EXCEPT !.first = Max(a.first, hi + 1)]} : r.first <= r.last}
           : a \in db}

\* addAttribute for a run of attributes of one type
addAttribute(db, handle, count, uuid) ==
    attDb_delete(db, handle, handle + count - 1)
        \cup {[first |-> handle, last |-> handle + count - 1, uuid |-> uuid]}

\* the third loop for one service: the descriptor runs of the attributes it
\* adds after the service declaration, in handle order
RECURSIVE addServices_attributes(_, _)
addServices_attributes(characteristics, i) ==
    IF i > Len(characteristics) THEN <<>>
    ELSE <<Descriptor(10243, 1), Descriptor(characteristics[i].uuid, 1)>>
           \o characteristics[i].descriptors
           \o addServices_attributes(characteristics, i + 1)

\* the service with the handles of its characteristics set
addServices_emit(s) ==
    [s EXCEPT !.characteristics =
        [i \in DOMAIN s.characteristics |->
            [s.characteristics[i] EXCEPT !.startHandle =
                s.startHandle + 1 + Len(s.includedServices)
                  + Count(addServices_attributes(SubSeq(s.characteristics, 1, i - 1), 1))]]]

\* the attribute database after the attributes of the runs from handle on
RECURSIVE addServices_attDb(_, _, _)
addServices_attDb(db, runs, handle) ==
    IF runs = <<>> THEN db
    ELSE addServices_attDb(addAttribute(db, handle, runs[1].count, runs[1].uuid),
                           Tail(runs), handle + runs[1].count)

\* ... of all the services of the batch
RECURSIVE addServices_emitAll(_, _, _)
addServices_emitAll(db, servicesToAdd, si) ==
    IF si > Len(servicesToAdd) THEN db
    ELSE LET s == servicesToAdd[si]
         IN  addServices_emitAll(
                 addServices_attDb(db,
                     <<Descriptor(10240, 1)>>
                       \o [i \in DOMAIN s.includedServices |-> Descriptor(10242, 1)]
                       \o addServices_attributes(s.characteristics, 1),
                     s.startHandle),
                 servicesToAdd, si + 1)

\* addServices: validation, placement, then the attributes; a failed call throws
addServices(g, services) ==
    IF \E si \in DOMAIN services : ~addServices_valid(g.allServices, services, si)
    THEN [g EXCEPT !.threw = TRUE, !.undone = 0]
    ELSE LET placed == addServices_place(g.allServices,
                           [si \in DOMAIN services |-> addServices_toAdd(services[si])],
                           1, <<>>)
             batch == {placed.servicesToAdd[si] : si \in DOMAIN services}
         IN  IF ~placed.ok
             THEN [g EXCEPT !.allServices = placed.allServices, !.threw = TRUE,
                            !.undone = placed.undone]
             ELSE [g EXCEPT
                     !.allServices =
                        [i \in DOMAIN placed.allServices |->
                            IF placed.allServices[i] \in batch
                            THEN addServices_emit(placed.allServices[i])
                            ELSE placed.allServices[i]],
                     !.attDb = addServices_emitAll(g.attDb, placed.servicesToAdd, 1),
                     !.threw = FALSE, !.undone = 0]

\* removeService: the first placed service of that user object goes, with
\* the attributes of its handle range
removeService(g, service) ==
    LET found == {i \in DOMAIN g.allServices : g.allServices[i].userObj = service}
        i == CHOOSE j \in found : \A k \in found : j <= k
        s == g.allServices[i]
    IN  IF found = {} THEN g
        ELSE [g EXCEPT
                !.allServices = splice(g.allServices, i, 1, <<>>),
                !.attDb = attDb_delete(g.attDb, s.startHandle, s.endHandle)]

\* the database after construction: the constructor adds the Generic
\* Attribute service (0x1801) and the Generic Access service (0x1800)
GattServerDb ==
    addServices(
        [allServices |-> <<>>, attDb |-> {}, threw |-> FALSE, undone |-> 0,
         cccdValues |-> <<>>, bonded |-> FALSE,
         connection |-> [id |-> 0, state |-> "none", isBonded |-> FALSE],
         subscriptionChanges |-> <<>>, sent |-> <<>>, callback |-> "", nOps |-> 0],
        << Service(6145, Null, <<>>, <<Characteristic(10757, {5}, <<>>)>>),
           Service(6144, Null, <<>>, <<Characteristic(10752, {1}, <<>>),
                                       Characteristic(10753, {1}, <<>>)>>) >>)

(***************************************************************************)
(* Adding and removing services.  The user's services come in three sizes: *)
(* one handle (no characteristic), five handles (a characteristic with the *)
(* notify and writable-auxiliaries properties, which brings a CCCD and an  *)
(* Extended Properties descriptor) and more than half of the handle space  *)
(* (a characteristic with 33000 descriptors); one includes another        *)
(* service and has two handles.  A service fails the validation if its     *)
(* startHandle is 0, if it has two CCCDs, or if the service it includes is *)
(* neither placed nor in the batch.  No service is added while it is       *)
(* placed.                                                                 *)
(***************************************************************************)
MaxServices == 2    \* services placed beside the two of the constructor when a batch is added

Services ==
    LET five == <<Characteristic(1, {4, 8}, <<>>)>>
    IN  { Service(1, Null, <<>>, <<>>),
          Service(2, Null, <<>>, five),
          Service(3, 20, <<>>, five),
          Service(4, 15, <<>>, five),
          Service(5, Null, <<1>>, <<>>),
          Service(6, 65530, <<>>, five),
          Service(7, 65535, <<>>, <<>>),
          Service(8, Null, <<>>,
                  <<Characteristic(1, {1}, <<Descriptor(10497, 33000)>>)>>),
          Service(9, 0, <<>>, <<>>),
          Service(10, Null, <<>>, <<Characteristic(1, {4}, <<Descriptor(10498, 2)>>)>>),
          Service(11, Null, <<>>,
                  <<Characteristic(1, {1}, <<Descriptor(10497, 33000)>>)>>) }

Batches ==
    {<<s>> : s \in Services}
      \cup {<<s, t>> : s \in {x \in Services : x.userObj \in {1, 2, 4}},
                      t \in {x \in Services : x.userObj \in {3, 5, 9, 11}}}

AddServices ==
    \E services \in Batches :
        /\ Len(gatt.allServices) < 2 + MaxServices
        /\ \A si \in DOMAIN services, i \in DOMAIN gatt.allServices :
              services[si].userObj # gatt.allServices[i].userObj
        /\ gatt' = addServices(gatt, services)
        /\ UNCHANGED <<att, hci, client, cache, store, link, reads, srv, fifo, info, codec>>

RemoveService ==
    \E service \in {s.userObj : s \in Services} :
        /\ gatt' = [removeService(gatt, service) EXCEPT !.threw = FALSE, !.undone = 0]
        /\ UNCHANGED <<att, hci, client, cache, store, link, reads, srv, fifo, info, codec>>

(***************************************************************************)
(* The connection hooks of the GATT server database and the functions of   *)
(* a CCCD (descriptor 0x2902).  c.cccds maps the id of a connection to the *)
(* value stored for it; Null stands for a value that is undefined.         *)
(***************************************************************************)
\* the characteristics that have a CCCD, as (service, characteristic)
\* positions in the order in which the hooks visit them
RECURSIVE CccdRefs(_, _)
CccdRefs(allServices, si) ==
    IF si > Len(allServices) THEN <<>>
    ELSE SelectSeq([ci \in DOMAIN allServices[si].characteristics |-> <<si, ci>>],
                   LAMBDA ref : \E j \in DOMAIN allServices[si].characteristics[ref[2]].descriptors :
                       allServices[si].characteristics[ref[2]].descriptors[j].uuid = 10498)
           \o CccdRefs(allServices, si + 1)

\* d.handle of the CCCD of a characteristic
cccdHandle(c) ==
    LET j == CHOOSE k \in DOMAIN c.descriptors : c.descriptors[k].uuid = 10498
    IN  c.startHandle + 2 + Count(SubSeq(c.descriptors, 1, j - 1))

\* storage.storeCccd and storage.getCccd for the one own address
storeCccd(cccdValues, peerAddress, handle, value) ==
    LET old == IF peerAddress \in DOMAIN cccdValues THEN cccdValues[peerAddress] ELSE <<>>
        new == [h \in DOMAIN old \cup {handle} |-> IF h = handle THEN value ELSE old[h]]
    IN  [p \in DOMAIN cccdValues \cup {peerAddress} |->
            IF p = peerAddress THEN new ELSE cccdValues[p]]

\* a getCccd that finds nothing
getCccd_nothing(cccdValues, peerAddress, handle) == 0

getCccd(cccdValues, peerAddress, handle) ==
    IF peerAddress \in DOMAIN cccdValues
    THEN IF handle \in DOMAIN cccdValues[peerAddress]
         THEN cccdValues[peerAddress][handle] ELSE Null
    ELSE 0

\* the database with the cccds of every characteristic that has a CCCD
\* replaced by what Cccds gives for it
WithCccds(g, Cccds(_)) ==
    [g EXCEPT !.allServices =
        [si \in DOMAIN g.allServices |->
            [g.allServices[si] EXCEPT !.characteristics =
                [ci \in DOMAIN g.allServices[si].characteristics |->
                    LET c == g.allServices[si].characteristics[ci]
                    IN  IF \E j \in DOMAIN c.descriptors : c.descriptors[j].uuid = 10498
                        THEN [c EXCEPT !.cccds = Cccds(c)] ELSE c]]]]

\* the calls of onSubscriptionChange a hook makes, one for each
\* characteristic with a CCCD whose value for the connection is truthy
SubscriptionCalls(g, id, Call(_)) ==
    LET refs == SelectSeq(CccdRefs(g.allServices, 1),
                    LAMBDA ref :
                        LET c == g.allServices[ref[1]].characteristics[ref[2]]
                        IN  id \in DOMAIN c.cccds /\ c.cccds[id] \notin {0, Null})
    IN  [k \in DOMAIN refs |->
            Call(g.allServices[refs[k][1]].characteristics[refs[k][2]])]

onConnected1(g, connection) ==
    IF ~connection.isBonded THEN g
    ELSE WithCccds(g, LAMBDA c :
             [id \in DOMAIN c.cccds \cup {connection.id} |->
                 IF id = connection.id
                 THEN getCccd(g.cccdValues, "peer", cccdHandle(c)) ELSE c.cccds[id]])

onConnected2(g, connection) ==
    IF ~connection.isBonded THEN g
    ELSE [g EXCEPT !.subscriptionChanges =
            SubscriptionCalls(g, connection.id, LAMBDA c :
                [characteristic |-> c.startHandle, connection |-> connection.id,
                 notification |-> c.cccds[connection.id] % 2 = 1,
                 indication |-> (c.cccds[connection.id] \div 2) % 2 = 1,
                 isWrite |-> FALSE])]

\* an onDisconnected that keeps the entries of the connection
onDisconnected_keepsEntries(g, connection) ==
    [g EXCEPT !.subscriptionChanges =
        SubscriptionCalls(g, connection.id, LAMBDA c :
            [characteristic |-> c.startHandle, connection |-> connection.id,
             notification |-> FALSE, indication |-> FALSE, isWrite |-> FALSE])]

onDisconnected(g, connection) ==
    [WithCccds(g, LAMBDA c : [id \in DOMAIN c.cccds \ {connection.id} |-> c.cccds[id]])
        EXCEPT !.subscriptionChanges =
            SubscriptionCalls(g, connection.id, LAMBDA c :
                [characteristic |-> c.startHandle, connection |-> connection.id,
                 notification |-> FALSE, indication |-> FALSE, isWrite |-> FALSE])]

RECURSIVE onBonded_store(_, _, _, _)
onBonded_store(g, refs, id, cccdValues) ==
    IF refs = <<>> THEN cccdValues
    ELSE LET c == g.allServices[refs[1][1]].characteristics[refs[1][2]]
         IN  onBonded_store(g, Tail(refs), id,
                 storeCccd(cccdValues, "peer", cccdHandle(c),
                           IF id \in DOMAIN c.cccds THEN c.cccds[id] ELSE 0))

onBonded(g, connection) ==
    [g EXCEPT !.cccdValues =
        onBonded_store(g, CccdRefs(g.allServices, 1), connection.id, g.cccdValues)]

\* a write function that does not look at the bits it is given
createWriteFn_unchecked(g, si, ci, connection, offset, value) ==
    LET c == g.allServices[si].characteristics[ci]
        stored == IF connection.id \in DOMAIN c.cccds THEN c.cccds[connection.id] ELSE 0
        v == SubSeq(<<IF stored = Null THEN 0 ELSE stored, 0>>, 1, offset) \o value
    IN  IF offset > 2 THEN [g EXCEPT !.callback = "INVALID_OFFSET"]
        ELSE IF offset + Len(value) # 2
        THEN [g EXCEPT !.callback = "INVALID_ATTRIBUTE_VALUE_LENGTH"]
        ELSE [g EXCEPT
                !.allServices[si].characteristics[ci].cccds =
                    [id \in DOMAIN c.cccds \cup {connection.id} |->
                        IF id = connection.id THEN v[1] ELSE c.cccds[id]],
                !.callback = "OK"]

\* the write function of the CCCD of characteristic ci of service si
createWriteFn(g, si, ci, connection, offset, value) ==
    LET c == g.allServices[si].characteristics[ci]
        stored == IF connection.id \in DOMAIN c.cccds THEN c.cccds[connection.id] ELSE 0
        prev == <<IF stored = Null THEN 0 ELSE stored, 0>>
        v == SubSeq(prev, 1, offset) \o value
        notification == v[1] % 2 = 1
        indication == (v[1] \div 2) % 2 = 1
    IN  IF offset > 2 THEN [g EXCEPT !.callback = "INVALID_OFFSET"]
        ELSE IF offset + Len(value) # 2
        THEN [g EXCEPT !.callback = "INVALID_ATTRIBUTE_VALUE_LENGTH"]
        ELSE IF \/ notification /\ 4 \notin c.properties
                \/ indication /\ 5 \notin c.properties
                \/ v[2] # 0
                \/ v[1] > 3
        THEN [g EXCEPT !.callback =
                 "CLIENT_CHARACTERISTIC_CONFIGURATION_DESCRIPTOR_IMPROPERLY_CONFIGURED"]
        ELSE [g EXCEPT
                !.allServices[si].characteristics[ci].cccds =
                    [id \in DOMAIN c.cccds \cup {connection.id} |->
                        IF id = connection.id THEN v[1] ELSE c.cccds[id]],
                !.cccdValues =
                    IF connection.isBonded /\ prev # v
                    THEN storeCccd(g.cccdValues, "peer", cccdHandle(c), v[1])
                    ELSE g.cccdValues,
                !.callback = "OK",
                !.subscriptionChanges =
                    <<[characteristic |-> c.startHandle, connection |-> connection.id,
                       notification |-> notification, indication |-> indication,
                       isWrite |-> TRUE]>>]

\* c.userObj.notify and c.userObj.indicate: (returned value, what was handed
\* to the connection's _notify or _indicate)
userObj_notify(g, si, ci, id) ==
    LET c == g.allServices[si].characteristics[ci]
    IN  IF id \notin DOMAIN c.cccds \/ c.cccds[id] = Null \/ c.cccds[id] % 2 # 1
        THEN <<FALSE, <<>>>>
        ELSE <<TRUE, <<[op |-> "notify", handle |-> c.startHandle + 1, connection |-> id]>>>>

userObj_indicate(g, si, ci, id) ==
    LET c == g.allServices[si].characteristics[ci]
    IN  IF id \notin DOMAIN c.cccds \/ c.cccds[id] = Null \/ (c.cccds[id] \div 2) % 2 # 1
        THEN <<FALSE, <<>>>>
        ELSE <<TRUE, <<[op |-> "indicate", handle |-> c.startHandle + 1, connection |-> id]>>>>

(***************************************************************************)
(* One peer device connects, bonds, writes CCCDs and disconnects, while    *)
(* the application adds a service of its own and notifies and indicates.   *)
(***************************************************************************)
MaxConnections == 2    \* connections the peer makes
MaxGattOps == 5        \* writes, notifications and indications

\* a service with a characteristic that notifies and indicates, one that
\* only notifies and one that can only be read
Profile ==
    Service(1, Null, <<>>, << Characteristic(1, {1, 4, 5}, <<>>),
                              Characteristic(2, {4}, <<Descriptor(10497, 1)>>),
                              Characteristic(3, {1}, <<>>) >>)

\* what a client writes to a CCCD
CccdWrites ==
    {<<>>, <<0>>, <<1>>, <<2>>, <<3>>, <<4>>, <<1, 0, 0>>}
        \cup {<<a, b>> : a \in 0..4, b \in {0, 1}}

GattOp(g) ==
    /\ gatt' = g
    /\ UNCHANGED <<att, hci, client, cache, store, link, reads, srv, fifo, info, codec>>

AddProfile ==
    /\ \A i \in DOMAIN gatt.allServices : gatt.allServices[i].userObj # Profile.userObj
    /\ GattOp([addServices(gatt, <<Profile>>) EXCEPT
                  !.subscriptionChanges = <<>>, !.sent = <<>>, !.callback = ""])

Connected1 ==
    /\ gatt.connection.state \in {"none", "disconnected"}
    /\ gatt.connection.id < MaxConnections
    /\ LET connection == [id |-> gatt.connection.id + 1, state |-> "connected1",
                          isBonded |-> gatt.bonded]
       IN  GattOp([onConnected1(gatt, connection) EXCEPT
                      !.connection = connection,
                      !.subscriptionChanges = <<>>, !.sent = <<>>, !.callback = ""])

Connected2 ==
    /\ gatt.connection.state = "connected1"
    /\ GattOp([onConnected2([gatt EXCEPT !.subscriptionChanges = <<>>], gatt.connection)
                  EXCEPT !.connection.state = "connected", !.sent = <<>>, !.callback = ""])

Bonded ==
    /\ gatt.connection.state = "connected" /\ ~gatt.connection.isBonded
    /\ LET connection == [gatt.connection EXCEPT !.isBonded = TRUE]
       IN  GattOp([onBonded(gatt, connection) EXCEPT
                      !.connection = connection, !.bonded = TRUE,
                      !.subscriptionChanges = <<>>, !.sent = <<>>, !.callback = ""])

CccdWrite ==
    /\ gatt.connection.state = "connected" /\ gatt.nOps < MaxGattOps
    /\ \E k \in DOMAIN CccdRefs(gatt.allServices, 1), offset \in 0..3, value \in CccdWrites :
          LET ref == CccdRefs(gatt.allServices, 1)[k]
          IN  GattOp([createWriteFn([gatt EXCEPT !.subscriptionChanges = <<>>],
                                    ref[1], ref[2], gatt.connection, offset, value)
                         EXCEPT !.sent = <<>>, !.nOps = @ + 1])

Disconnected ==
    /\ gatt.connection.state = "connected"
    /\ GattOp([onDisconnected(gatt, gatt.connection) EXCEPT
                  !.connection.state = "disconnected", !.sent = <<>>, !.callback = ""])

NotifyOrIndicate ==
    /\ gatt.connection.state \in {"connected", "disconnected"} /\ gatt.nOps < MaxGattOps
    /\ \E k \in DOMAIN CccdRefs(gatt.allServices, 1), id \in 1..gatt.connection.id,
          op \in {"notify", "indicate"} :
          LET ref == CccdRefs(gatt.allServices, 1)[k]
              call == IF op = "notify" THEN userObj_notify(gatt, ref[1], ref[2], id)
                      ELSE userObj_indicate(gatt, ref[1], ref[2], id)
          IN  GattOp([gatt EXCEPT !.sent = call[2], !.subscriptionChanges = <<>>,
                                  !.callback = "", !.nOps = @ + 1])

(***************************************************************************)
(* The GATT client of a connection (GattConnection).  It lives in the      *)
(* record `client`: gattCache with its RangeMaps (lists of items start,    *)
(* end, value in handle order; the value is the UUID of a service, or Null *)
(* for a range known to hold no service), inReliableWrite and              *)
(* hasPendingRequest, and write, the write request that is under way.      *)
(* The environment fields are server (the primary services the peer has),  *)
(* queried (the ranges the last discovery asked the peer about), threw     *)
(* (the error the last request function threw, "" if none), out (the ATT   *)
(* requests handed to the ATT engine) and callbacks (what the callbacks of *)
(* the API calls were given).                                              *)
(***************************************************************************)
RangeMap_get(map, index) ==
    LET found == {i \in DOMAIN map : map[i].start <= index /\ index <= map[i].end}
    IN  IF found = {} THEN 0 ELSE CHOOSE i \in found : \A j \in found : i <= j

RangeMap_remove(map, index) ==
    IF RangeMap_get(map, index) = 0 THEN map
    ELSE splice(map, RangeMap_get(map, index), 1, <<>>)

RangeMap_insert(map, start, end, value) ==
    LET later == {i \in DOMAIN map : end < map[i].start}
        i == IF later = {} THEN Len(map) + 1 ELSE CHOOSE k \in later : \A j \in later : k <= j
    IN  splice(map, i, 0, <<[start |-> start, end |-> end, value |-> value]>>)

\* map.remove(handle) for every handle of toRemove
RECURSIVE RangeMap_removeAll(_, _)
RangeMap_removeAll(map, toRemove) ==
    IF toRemove = <<>> THEN map
    ELSE RangeMap_removeAll(RangeMap_remove(map, toRemove[1]), Tail(toRemove))

clearGattCache ==
    [hasAllPrimaryServices |-> FALSE, allPrimaryServices |-> <<>>,
     secondaryServices |-> <<>>, primaryServicesByUUID |-> <<>>]

\* createGattClientService for a primary service
createGattClientService(gattCache, start, end, uuid) ==
    LET byUuid == gattCache.primaryServicesByUUID
        map == IF uuid \in DOMAIN byUuid THEN byUuid[uuid] ELSE <<>>
    IN  [gattCache EXCEPT
            !.allPrimaryServices = RangeMap_insert(@, start, end, uuid),
            !.primaryServicesByUUID =
                [key \in DOMAIN byUuid \cup {uuid} |->
                    IF key = uuid THEN RangeMap_insert(map, start, end, uuid)
                    ELSE byUuid[key]]]

\* the ranges of 1..0xffff that a map has no item for: rangesToCheck of a
\* discovery, and the holes fillHoles fills after the whole range was checked
RECURSIVE RangeMap_gaps(_, _, _)
RangeMap_gaps(map, i, last) ==
    IF i > Len(map)
    THEN IF last # 65535 THEN <<[start |-> last + 1, end |-> 65535]>> ELSE <<>>
    ELSE (IF map[i].start > last + 1
          THEN <<[start |-> last + 1, end |-> map[i].start - 1]>> ELSE <<>>)
           \o RangeMap_gaps(map, i + 1, map[i].end)

RECURSIVE fillHoles(_, _)
fillHoles(map, holes) ==
    IF holes = <<>> THEN map
    ELSE fillHoles(RangeMap_insert(map, holes[1].start, holes[1].end, Null), Tail(holes))

\* discoverAllPrimaryServices with the answers of the peer: an answer from
\* the cache, or a query of every range the cache does not know
RECURSIVE discoverPrimaryServices_found(_, _, _)
discoverPrimaryServices_found(gattCache, rangesToCheck, list) ==
    IF list = <<>> THEN gattCache
    ELSE LET v == list[1]
             asked == \E i \in DOMAIN rangesToCheck :
                         /\ rangesToCheck[i].start <= v.start
                         /\ v.end <= rangesToCheck[i].end
         IN  discoverPrimaryServices_found(
                 IF asked /\ RangeMap_get(gattCache.allPrimaryServices, v.start) = 0
                 THEN createGattClientService(gattCache, v.start, v.end, v.uuid)
                 ELSE gattCache,
                 rangesToCheck, Tail(list))

discoverPrimaryServices(c) ==
    LET services(map) == SelectSeq(map, LAMBDA item : item.value # Null)
    IN  IF c.gattCache.hasAllPrimaryServices
        THEN [c EXCEPT !.queried = <<>>, !.threw = "",
                       !.callbacks = <<services(c.gattCache.allPrimaryServices)>>]
        ELSE LET rangesToCheck == RangeMap_gaps(c.gattCache.allPrimaryServices, 1, 0)
                 found == discoverPrimaryServices_found(c.gattCache, rangesToCheck, c.server)
                 filled == IF rangesToCheck = <<>> THEN found
                           ELSE [found EXCEPT
                                   !.allPrimaryServices =
                                       fillHoles(@, RangeMap_gaps(@, 1, 0)),
                                   !.primaryServicesByUUID =
                                       [key \in DOMAIN @ |->
                                           fillHoles(@[key], RangeMap_gaps(@[key], 1, 0))],
                                   !.hasAllPrimaryServices = TRUE]
             IN  [c EXCEPT !.gattCache = filled, !.queried = rangesToCheck, !.threw = "",
                           !.callbacks = <<services(filled.allPrimaryServices)>>]

\* invalidateServices.  The loop over primaryServicesByUUID pushes the
\* dictionary itself, which has no forEach: a TypeError once the two maps
\* before it are done.  The assignment to hasAllPrimaryServices names no
\* declared variable: a ReferenceError in strict mode, a new global otherwise.
invalidateServices(c, startHandle, endHandle, strict) ==
    LET overlapping(map) ==
            LET hit == SelectSeq(map, LAMBDA v : v.start <= endHandle /\ v.end >= startHandle)
            IN  [i \in DOMAIN hit |-> hit[i].start]
        pruned(map) == RangeMap_removeAll(map, overlapping(map))
        all == c.gattCache.allPrimaryServices
        secondary == c.gattCache.secondaryServices
        modified == overlapping(all) # <<>> \/ overlapping(secondary) # <<>>
        cleared == [c.gattCache EXCEPT !.allPrimaryServices = pruned(all),
                                       !.secondaryServices = pruned(secondary)]
    IN  IF startHandle = 1 /\ endHandle = 65535
        THEN IF strict
             THEN [c EXCEPT !.gattCache = clearGattCache, !.threw = "ReferenceError",
                            !.hasPendingRequest = TRUE, !.queried = <<>>, !.callbacks = <<>>]
             ELSE [c EXCEPT !.gattCache = clearGattCache, !.threw = "",
                            !.queried = <<>>, !.callbacks = <<"done">>]
        ELSE IF DOMAIN c.gattCache.primaryServicesByUUID # {}
        THEN [c EXCEPT !.gattCache = cleared, !.threw = "TypeError",
                       !.hasPendingRequest = TRUE, !.queried = <<>>, !.callbacks = <<>>]
        ELSE IF modified /\ strict
        THEN [c EXCEPT !.gattCache = cleared, !.threw = "ReferenceError",
                       !.hasPendingRequest = TRUE, !.queried = <<>>, !.callbacks = <<>>]
        ELSE [c EXCEPT !.gattCache = cleared, !.threw = "",
                       !.queried = <<>>, !.callbacks = <<"done">>]

\* the client of a new connection
GattConnection ==
    [gattCache |-> clearGattCache, inReliableWrite |-> FALSE, hasPendingRequest |-> FALSE,
     write |-> [awaiting |-> "none", handle |-> 0, value |-> <<>>, startOffset |-> 0,
               offset |-> 0, atLeastOneSuccess |-> FALSE, buffer |-> <<>>, err |-> 0],
     server |-> <<>>, queried |-> <<>>, threw |-> "", out |-> <<>>, received |-> <<>>,
     callbacks |-> <<>>, nOps |-> 0, nResponses |-> 0]

(***************************************************************************)
(* The application discovers the services of the peer and invalidates      *)
(* ranges of handles; the peer changes its services in between.            *)
(***************************************************************************)
MaxClientOps == 4    \* API calls made on the client

\* the primary services a peer may have: (start, end, uuid), in handle order
Layouts ==
    LET S(start, end, uuid) == [start |-> start, end |-> end, uuid |-> uuid]
    IN  { <<>>, <<S(1, 5, 1)>>, <<S(1, 5, 1), S(10, 20, 2)>>,
          <<S(1, 5, 1), S(6, 9, 1), S(10, 20, 2)>>, <<S(10, 20, 2), S(65530, 65535, 1)>> }

HandleRanges == {<<1, 65535>>, <<1, 5>>, <<6, 9>>, <<8, 12>>, <<21, 30>>, <<65535, 65535>>}

ClientOp(c) ==
    /\ client.nOps < MaxClientOps
    /\ client' = [c EXCEPT !.nOps = client.nOps + 1]
    /\ UNCHANGED <<att, hci, gatt, cache, store, link, reads, srv, fifo, info, codec>>

ServicesChanged ==
    \E server \in Layouts \ {client.server} :
        /\ client' = [client EXCEPT !.server = server]
        /\ UNCHANGED <<att, hci, gatt, cache, store, link, reads, srv, fifo, info, codec>>

DiscoverAllPrimaryServices ==
    /\ ~client.hasPendingRequest
    /\ ClientOp(discoverPrimaryServices(client))

InvalidateServices ==
    /\ ~client.hasPendingRequest
    /\ \E range \in HandleRanges, strict \in BOOLEAN :
          ClientOp(invalidateServices(client, range[1], range[2], strict))

(***************************************************************************)
(* Writes of the GATT client.  client.write is the write request under     *)
(* way: awaiting names the response its callback waits for ("write",       *)
(* "prepare", "execute" after the last part, "cancel" after a failed part, *)
(* "abort" after a part that was not echoed, "end" for commitReliableWrite *)
(* and cancelReliableWrite, "none" when no request is under way), buffer   *)
(* is the PREPARE_WRITE_REQUEST that was sent last, err the error kept for *)
(* the callback.  client.out lists the PDUs handed to the ATT engine,      *)
(* client.received the last response, client.callbacks the errors given to *)
(* the callbacks (-1 ends a reliable write that the peer did not echo).    *)
(***************************************************************************)
writeUInt16LE(value) == <<value % 256, value \div 256>>

slice(buffer, start, end) == SubSeq(buffer, start + 1, Min(end, Len(buffer)))

NoWrite ==
    [awaiting |-> "none", handle |-> 0, value |-> <<>>, startOffset |-> 0, offset |-> 0,
     atLeastOneSuccess |-> FALSE, buffer |-> <<>>, err |-> 0]

\* callback(err); doneNextRequest()
write_callback(c, err) ==
    [c EXCEPT !.callbacks = Append(@, err), !.hasPendingRequest = FALSE, !.write = NoWrite]

att_prepareWrite(attributeHandle, valueOffset, partAttributeValue) ==
    <<PREPARE_WRITE_REQUEST>> \o writeUInt16LE(attributeHandle)
        \o writeUInt16LE(valueOffset) \o partAttributeValue

att_executeWrite(isExecute) == <<EXECUTE_WRITE_REQUEST, IF isExecute THEN 1 ELSE 0>>

write_nextPart(c, mtu, offset) ==
    LET w == c.write
    IN  IF offset = w.startOffset + Len(w.value) /\ w.atLeastOneSuccess
        THEN IF c.inReliableWrite THEN write_callback(c, 0)
             ELSE [c EXCEPT !.out = Append(@, att_executeWrite(TRUE)),
                            !.write.awaiting = "execute"]
        ELSE LET partValue == slice(w.value, offset - w.startOffset,
                                    offset - w.startOffset + mtu - 5)
                 buffer == att_prepareWrite(w.handle, offset, partValue)
             IN  [c EXCEPT !.out = Append(@, buffer), !.write.awaiting = "prepare",
                           !.write.offset = offset, !.write.buffer = buffer]

write(c, mtu, isDescriptor, handle, value, offset) ==
    LET c1 == [c EXCEPT !.hasPendingRequest = TRUE]
    IN  IF offset = 0 /\ Len(value) <= mtu - 3 /\ (~c.inReliableWrite \/ isDescriptor)
        THEN [c1 EXCEPT !.out = Append(@, <<WRITE_REQUEST>> \o writeUInt16LE(handle) \o value),
                        !.write = [NoWrite EXCEPT !.awaiting = "write"]]
        ELSE write_nextPart([c1 EXCEPT !.write = [NoWrite EXCEPT !.handle = handle,
                                                     !.value = value, !.startOffset = offset]],
                            mtu, offset)

\* a part that the peer did not echo is taken as written
write_prepared_unchecked(c, mtu, err, data) ==
    LET w == c.write
    IN  IF err # 0
        THEN IF w.atLeastOneSuccess /\ ~c.inReliableWrite
             THEN [c EXCEPT !.out = Append(@, att_executeWrite(FALSE)),
                            !.write.awaiting = "cancel", !.write.err = err]
             ELSE write_callback(c, err)
        ELSE IF Len(data) < 5 THEN c
        ELSE write_nextPart([c EXCEPT !.write.atLeastOneSuccess = TRUE],
                            mtu, w.offset + (Len(w.buffer) - 5))

\* an error ends the write at once, whatever the peer has queued already
write_prepared_noCancel(c, mtu, err, data) ==
    LET w == c.write
        ok == slice(w.buffer, 1, Len(w.buffer)) = slice(data, 1, Len(data))
    IN  IF err # 0 THEN write_callback(c, err)
        ELSE IF Len(data) < 5 THEN c
        ELSE IF ~ok /\ c.inReliableWrite
        THEN [c EXCEPT !.out = Append(@, att_executeWrite(FALSE)), !.write.awaiting = "abort"]
        ELSE write_nextPart([c EXCEPT !.write.atLeastOneSuccess = TRUE],
                            mtu, w.offset + (Len(w.buffer) - 5))

\* the callback of att.prepareWrite and, through it, the one of write
write_prepared(c, mtu, err, data) ==
    LET w == c.write
        ok == slice(w.buffer, 1, Len(w.buffer)) = slice(data, 1, Len(data))
    IN  IF err # 0
        THEN IF w.atLeastOneSuccess /\ ~c.inReliableWrite
             THEN [c EXCEPT !.out = Append(@, att_executeWrite(FALSE)),
                            !.write.awaiting = "cancel", !.write.err = err]
             ELSE write_callback(c, err)
        ELSE IF Len(data) < 5 THEN c
        ELSE IF ~ok /\ c.inReliableWrite
        THEN [c EXCEPT !.out = Append(@, att_executeWrite(FALSE)), !.write.awaiting = "abort"]
        ELSE write_nextPart([c EXCEPT !.write.atLeastOneSuccess = TRUE],
                            mtu, w.offset + (Len(w.buffer) - 5))

\* the callback of att.executeWrite in write, commitReliableWrite and
\* cancelReliableWrite
write_executed(c, err) ==
    CASE c.write.awaiting = "execute" -> write_callback(c, err)
      [] c.write.awaiting = "cancel" -> write_callback(c, c.write.err)
      [] c.write.awaiting = "abort" ->
            write_callback([c EXCEPT !.inReliableWrite = FALSE], 0 - 1)
      [] c.write.awaiting = "end" ->
            write_callback([c EXCEPT !.inReliableWrite = FALSE], err)

MaxWrites == 3       \* requests the application makes on the client
MaxResponses == 5    \* responses the peer sends

WriteValues == {[i \in 1..n |-> i] : n \in {0, 3, 19, 40}}

\* what a peer may answer to the PREPARE_WRITE_REQUEST buffer
PrepareResponses(buffer) ==
    LET echo == <<PREPARE_WRITE_RESPONSE>> \o Tail(buffer)
        n == Len(echo)
    IN  {echo, [echo EXCEPT ![2] = (@ + 1) % 256], [echo EXCEPT ![4] = (@ + 1) % 256],
         [echo EXCEPT ![n] = (@ + 1) % 256], SubSeq(echo, 1, n - 1), Append(echo, 0),
         <<PREPARE_WRITE_RESPONSE, 3, 0>>}

ClientRequest(c) ==
    /\ ~client.hasPendingRequest
    /\ client.nOps < MaxWrites
    /\ client' = [c EXCEPT !.nOps = client.nOps + 1]
    /\ UNCHANGED <<att, hci, gatt, cache, store, link, reads, srv, fifo, info, codec>>

ClientResponse(awaiting, c, data) ==
    /\ client.write.awaiting \in awaiting
    /\ client.nResponses < MaxResponses
    /\ client' = [c EXCEPT !.nResponses = client.nResponses + 1, !.received = data]
    /\ UNCHANGED <<att, hci, gatt, cache, store, link, reads, srv, fifo, info, codec>>

BeginReliableWrite ==
    /\ ~client.inReliableWrite
    /\ ClientRequest([client EXCEPT !.inReliableWrite = TRUE])

EndReliableWrite ==
    /\ client.inReliableWrite
    /\ \E isExecute \in BOOLEAN :
          ClientRequest([client EXCEPT !.hasPendingRequest = TRUE,
                                       !.out = Append(@, att_executeWrite(isExecute)),
                                       !.write = [NoWrite EXCEPT !.awaiting = "end"]])

ClientWrite ==
    \E isDescriptor \in BOOLEAN, value \in WriteValues, offset \in {0, 2} :
        /\ ~(client.inReliableWrite /\ isDescriptor
                /\ (offset # 0 \/ Len(value) > att.currentMtu - 3))
        /\ ClientRequest(write(client, att.currentMtu, isDescriptor, 3, value, offset))

ClientWriteResponse ==
    /\ client.write.awaiting = "write"
    /\ \E err \in {0, 1} :
        ClientResponse({"write"}, write_callback(client, err),
                       IF err = 0 THEN <<WRITE_RESPONSE>>
                       ELSE <<ERROR_RESPONSE, WRITE_REQUEST, 3, 0, err>>)

ClientPrepareWriteResponse ==
    /\ client.write.awaiting = "prepare"
    /\ \/ \E data \in PrepareResponses(client.write.buffer) :
          ClientResponse({"prepare"}, write_prepared(client, att.currentMtu, 0, data), data)
       \/ ClientResponse({"prepare"}, write_prepared(client, att.currentMtu, 1, <<>>),
                         <<ERROR_RESPONSE, PREPARE_WRITE_REQUEST, 3, 0, 1>>)

ClientExecuteWriteResponse ==
    /\ client.write.awaiting \in {"execute", "cancel", "abort", "end"}
    /\ \E err \in {0, 1} :
        ClientResponse({"execute", "cancel", "abort", "end"}, write_executed(client, err),
                       IF err = 0 THEN <<EXECUTE_WRITE_RESPONSE>>
                       ELSE <<ERROR_RESPONSE, EXECUTE_WRITE_REQUEST, 0, 0, err>>)

(***************************************************************************)
(* DuplicateCache: a cache of `capacity` keys that is meant to forget the  *)
(* oldest key when a new one arrives.  It lives in the record `cache`:     *)
(* first and last (the key of the node, Null for null), nodeMap (key to    *)
(* node; a node is its value and the keys of next and prev) and capacity   *)
(* (the free places).  The environment fields are calls (the calls made,   *)
(* oldest first), emitted (the keys of the 'remove' events), threw (the    *)
(* error the last call threw, "" if none) and returned (what it returned). *)
(* The values stored are numbers, which have no property `next`.           *)
(***************************************************************************)
Capacity == 2        \* the capacity the cache is constructed with
MaxCacheOps == 4     \* calls made on the cache

CacheKeys == 1..Capacity + 1

CacheValues == {10, 20}

DuplicateCache ==
    [first |-> Null, last |-> Null, nodeMap |-> <<>>, capacity |-> Capacity,
     calls |-> <<>>, emitted |-> <<>>, threw |-> "", returned |-> FALSE]

isDuplicate(dc, key) == key \in DOMAIN dc.nodeMap

get(dc, key) == IF isDuplicate(dc, key) THEN dc.nodeMap[key].value ELSE Null

delete(map, key) == [k \in DOMAIN map \ {key} |-> map[k]]

\* `node` is get(key): the value that was stored, not the node.  A number
\* has no `next`, undefined !== null holds, and the assignment to
\* undefined.prev throws after the key was deleted.
DuplicateCache_remove(dc, key) ==
    IF isDuplicate(dc, key)
    THEN [dc EXCEPT !.nodeMap = delete(@, key), !.threw = "TypeError"]
    ELSE [dc EXCEPT !.threw = "", !.returned = FALSE]

\* the node that is added becomes `last`; `first` and the `next` of the node
\* before it are left as they are
DuplicateCache_add(dc, key, value) ==
    LET dc1 == DuplicateCache_remove(dc, key)
        exists == dc1.returned
        full == dc1.capacity = 0
        dc2 == IF full
               THEN [dc1 EXCEPT !.nodeMap = delete(@, dc1.first),
                                !.first = dc1.nodeMap[dc1.first].next,
                                !.last = IF dc1.nodeMap[dc1.first].next = Null THEN Null ELSE @,
                                !.capacity = @ + 1]
               ELSE dc1
        node == [value |-> value, next |-> Null, prev |-> dc2.last]
    IN  IF dc1.threw # "" THEN dc1
        ELSE IF full /\ dc1.first = Null THEN [dc1 EXCEPT !.threw = "TypeError"]
        ELSE [dc2 EXCEPT !.nodeMap = [k \in DOMAIN @ \cup {key} |->
                                         IF k = key THEN node ELSE @[k]],
                         !.last = key,
                         !.capacity = @ - 1,
                         !.emitted = IF full /\ dc1.first # key
                                     THEN Append(@, dc1.first) ELSE @,
                         !.returned = ~exists]

CacheOp(dc, call) ==
    /\ Len(cache.calls) < MaxCacheOps
    /\ cache' = [dc EXCEPT !.calls = Append(@, call)]
    /\ UNCHANGED <<att, hci, gatt, client, store, link, reads, srv, fifo, info, codec>>

CacheAdd ==
    \E key \in CacheKeys, value \in CacheValues :
        CacheOp(DuplicateCache_add(cache, key, value),
                [op |-> "add", key |-> key, value |-> value])

CacheRemove ==
    \E key \in CacheKeys :
        CacheOp(DuplicateCache_remove(cache, key), [op |-> "remove", key |-> key, value |-> 0])

(***************************************************************************)
(* The persistence store of one own address.  It lives in the record       *)
(* `store`: cache is the entry of the address in the in-memory cache       *)
(* (irks, ltks, cccdValues and bondedPeerGattDbs, keyed by peer address),  *)
(* loaded is whether the process has the entry, and disk is the directory  *)
(* bonds: for every peer directory that exists, the parsed content of      *)
(* keys.json and of gatt_client_cache.json (a sequence that is empty when  *)
(* the file is absent) and, by handle, the values in the files of          *)
(* gatt_server_cccds.  A buffer is the sequence of its bytes, a hex string *)
(* the sequence of its digits; NoBuffer stands for null in the place of    *)
(* either, NoLtk for null in the place of an LTK object.  last is the last *)
(* call made (environment).                                                *)
(***************************************************************************)
NoBuffer == <<Null>>

NoLtk == [rand |-> NoBuffer, ediv |-> Null, ltk |-> NoBuffer]

toString_hex(buffer) ==
    [i \in 1..2 * Len(buffer) |->
        IF i % 2 = 1 THEN buffer[(i + 1) \div 2] \div 16 ELSE buffer[i \div 2] % 16]

Buffer_from_hex(hex) ==
    [i \in 1..Len(hex) \div 2 |-> 16 * hex[2 * i - 1] + hex[2 * i]]

bufferToHex(buffer) == IF buffer = NoBuffer THEN NoBuffer ELSE toString_hex(buffer)

Buffer_reverse(buffer) == [i \in 1..Len(buffer) |-> buffer[Len(buffer) + 1 - i]]

NoDirectory == [keys |-> <<>>, gatt |-> <<>>, cccds |-> <<>>]

\* writeFile: the directories of the path are made as needed.  file is
\* "keys.json", "gatt_client_cache.json" or "gatt_server_cccds", and handle
\* names the file in gatt_server_cccds.
writeFile(disk, peerAddress, file, handle, data) ==
    [p \in DOMAIN disk \cup {peerAddress} |->
        LET dir == IF p \in DOMAIN disk THEN disk[p] ELSE NoDirectory
        IN  IF p # peerAddress THEN dir
            ELSE CASE file = "keys.json" -> [dir EXCEPT !.keys = <<data>>]
                   [] file = "gatt_client_cache.json" -> [dir EXCEPT !.gatt = <<data>>]
                   [] OTHER -> [dir EXCEPT !.cccds =
                                   [h \in DOMAIN @ \cup {handle} |->
                                       IF h = handle THEN data ELSE @[h]]]]

\* the entry init builds from the directory bonds.  irkBufferRev is the
\* buffer irkBuffer itself, so that reverse() turns the stored irk around.
storage_init_entry(disk) ==
    LET keys(p) == disk[p].keys[1]
        HasIrk(p) == disk[p].keys # <<>> /\ keys(p).irk # NoBuffer /\ keys(p).irk # <<>>
        HasLtk(p) == disk[p].keys # <<>>
                        /\ (keys(p).localLtk # NoLtk \/ keys(p).peerLtk # NoLtk)
        Ltk(json) == IF json = NoLtk THEN NoLtk
                     ELSE [rand |-> Buffer_from_hex(json.rand), ediv |-> json.ediv,
                           ltk |-> Buffer_from_hex(json.ltk)]
    IN  [irks |-> [p \in {q \in DOMAIN disk : HasIrk(q)} |->
                      LET irkBuffer == Buffer_reverse(Buffer_from_hex(keys(p).irk))
                      IN  [aes |-> irkBuffer, irk |-> irkBuffer]],
         ltks |-> [p \in {q \in DOMAIN disk : HasLtk(q)} |->
                      [mitm |-> keys(p).mitm, sc |-> keys(p).sc,
                       localLtk |-> Ltk(keys(p).localLtk),
                       peerLtk |-> Ltk(keys(p).peerLtk)]],
         cccdValues |-> [p \in {q \in DOMAIN disk : DOMAIN disk[q].cccds # {}} |->
                            disk[p].cccds],
         bondedPeerGattDbs |-> [p \in {q \in DOMAIN disk : disk[q].gatt # <<>>} |->
                                   disk[p].gatt[1]]]

storage_init(s) ==
    IF s.loaded THEN s ELSE [s EXCEPT !.loaded = TRUE, !.cache = storage_init_entry(s.disk)]

put(map, key, value) == [k \in DOMAIN map \cup {key} |-> IF k = key THEN value ELSE map[k]]

\* k is [mitm, sc, irk, localLtk, localRand, localEdiv, peerLtk, peerRand,
\* peerEdiv]
storeKeys(s0, peerAddress, k) ==
    LET s == storage_init(s0)
        irks == IF k.irk # NoBuffer
                THEN put(s.cache.irks, peerAddress,
                         [aes |-> Buffer_reverse(k.irk), irk |-> k.irk])
                ELSE s.cache.irks
        ltks == put(s.cache.ltks, peerAddress,
                    [mitm |-> k.mitm, sc |-> k.sc,
                     localLtk |-> IF k.localLtk = NoBuffer THEN NoLtk
                                  ELSE [rand |-> k.localRand, ediv |-> k.localEdiv,
                                        ltk |-> k.localLtk],
                     peerLtk |-> IF k.peerLtk = NoBuffer THEN NoLtk
                                 ELSE [rand |-> k.peerRand, ediv |-> k.peerEdiv,
                                       ltk |-> k.peerLtk]])
        json == [mitm |-> k.mitm, sc |-> k.sc, irk |-> bufferToHex(k.irk),
                 localLtk |-> IF k.localLtk = NoBuffer THEN NoLtk
                              ELSE [rand |-> toString_hex(k.localRand), ediv |-> k.localEdiv,
                                    ltk |-> toString_hex(k.localLtk)],
                 peerLtk |-> IF k.peerLtk = NoBuffer THEN NoLtk
                             ELSE [rand |-> toString_hex(k.peerRand), ediv |-> k.peerEdiv,
                                   ltk |-> toString_hex(k.peerLtk)]]
    IN  [s EXCEPT !.cache.irks = irks, !.cache.ltks = ltks,
                  !.disk = writeFile(@, peerAddress, "keys.json", 0, json)]

\* the keys in a sequence, which is empty for undefined
getKeys(s0, peerAddress) ==
    LET s == storage_init(s0)
    IN  IF peerAddress \in DOMAIN s.cache.ltks THEN <<s.cache.ltks[peerAddress]>> ELSE <<>>

storage_storeCccd(s0, peerAddress, handle, value) ==
    LET s == storage_init(s0)
        values == IF peerAddress \in DOMAIN s.cache.cccdValues
                  THEN s.cache.cccdValues[peerAddress] ELSE <<>>
    IN  IF handle \in DOMAIN values /\ values[handle] = value
        THEN [s EXCEPT !.cache.cccdValues = put(@, peerAddress, values)]
        ELSE [s EXCEPT !.cache.cccdValues = put(@, peerAddress, put(values, handle, value)),
                       !.disk = writeFile(@, peerAddress, "gatt_server_cccds", handle, value)]

\* storeGattCache for a bonded peer
storeGattCache(s0, peerAddress, obj) ==
    LET s == storage_init(s0)
    IN  [s EXCEPT !.cache.bondedPeerGattDbs = put(@, peerAddress, obj),
                  !.disk = writeFile(@, peerAddress, "gatt_client_cache.json", 0, obj)]

\* the directory goes only when the cache held irks, ltks or cccdValues of
\* the peer; bondedPeerGattDbs is neither looked at nor cleared
removeBond(s0, peerAddress) ==
    LET s == storage_init(s0)
        remove == \/ peerAddress \in DOMAIN s.cache.irks
                  \/ peerAddress \in DOMAIN s.cache.ltks
                  \/ peerAddress \in DOMAIN s.cache.cccdValues
    IN  [s EXCEPT !.cache.irks = delete(@, peerAddress),
                  !.cache.ltks = delete(@, peerAddress),
                  !.cache.cccdValues = delete(@, peerAddress),
                  !.disk = IF remove THEN delete(@, peerAddress) ELSE @]

\* getGattCache for a bonded peer: the object in a sequence, which is empty
\* for null
getGattCache(s0, peerAddress) ==
    LET s == storage_init(s0)
    IN  IF peerAddress \in DOMAIN s.cache.bondedPeerGattDbs
        THEN <<s.cache.bondedPeerGattDbs[peerAddress]>> ELSE <<>>

\* Null stands for undefined, the value of a handle that was never stored
\* for a peer that has stored values
storage_getCccd(s0, peerAddress, handle) ==
    LET s == storage_init(s0)
    IN  IF peerAddress \in DOMAIN s.cache.cccdValues
        THEN IF handle \in DOMAIN s.cache.cccdValues[peerAddress]
             THEN s.cache.cccdValues[peerAddress][handle] ELSE Null
        ELSE 0

\* what stands for the last three bytes of aes.update(peerRand): a number
\* that depends on the key and on prand
aes_update(key, prand) == (key[1] + 3 * key[2] + prand) % 4

\* peerRandomAddress is [prand, hash]; the peer found in a sequence, which
\* is empty for null.  The candidates are tried in the order of their
\* addresses.
resolveAddress(s0, peerRandomAddress) ==
    LET s == storage_init(s0)
        irks == s.cache.irks
        found == {candidatePeerAddress \in DOMAIN irks :
                     aes_update(irks[candidatePeerAddress].aes, peerRandomAddress.prand)
                         = peerRandomAddress.hash}
    IN  IF found = {} THEN <<>>
        ELSE <<CHOOSE c \in found : \A d \in found : c <= d>>

NoKeys ==
    [mitm |-> FALSE, sc |-> FALSE, irk |-> NoBuffer,
     localLtk |-> NoBuffer, localRand |-> NoBuffer, localEdiv |-> Null,
     peerLtk |-> NoBuffer, peerRand |-> NoBuffer, peerEdiv |-> Null]

Storage ==
    [loaded |-> FALSE,
     cache |-> [irks |-> <<>>, ltks |-> <<>>, cccdValues |-> <<>>, bondedPeerGattDbs |-> <<>>],
     disk |-> <<>>,
     last |-> [op |-> "", peerAddress |-> 0, keys |-> NoKeys],
     nOps |-> 0]

(***************************************************************************)
(* The calls made on the store, and the start of a new process.            *)
(***************************************************************************)
MaxStoreOps == 4     \* calls made on the store and restarts

PeerAddresses == {1, 2}

\* the keys a pairing may leave: buffers are shortened to two bytes
KeySets ==
    LET K(mitm, sc, irk, localLtk, peerLtk) ==
            [mitm |-> mitm, sc |-> sc, irk |-> irk,
             localLtk |-> localLtk,
             localRand |-> IF localLtk = NoBuffer THEN NoBuffer ELSE <<0, 0>>,
             localEdiv |-> IF localLtk = NoBuffer THEN Null ELSE 0,
             peerLtk |-> peerLtk,
             peerRand |-> IF peerLtk = NoBuffer THEN NoBuffer ELSE <<171, 4>>,
             peerEdiv |-> IF peerLtk = NoBuffer THEN Null ELSE 513]
    IN  {K(FALSE, FALSE, NoBuffer, <<18, 52>>, NoBuffer),
         K(TRUE, FALSE, NoBuffer, <<18, 52>>, <<255, 1>>),
         K(TRUE, TRUE, <<160, 11>>, <<18, 52>>, NoBuffer),
         K(TRUE, TRUE, <<7, 7>>, NoBuffer, <<255, 1>>),
         K(TRUE, FALSE, <<160, 11>>, NoBuffer, NoBuffer),
         K(TRUE, TRUE, NoBuffer, NoBuffer, NoBuffer)}

StoreOp(s, op, peerAddress, keys) ==
    /\ store.nOps < MaxStoreOps
    /\ store' = [s EXCEPT !.nOps = store.nOps + 1,
                          !.last = [op |-> op, peerAddress |-> peerAddress, keys |-> keys]]
    /\ UNCHANGED <<att, hci, gatt, client, cache, link, reads, srv, fifo, info, codec>>

StoreKeys ==
    \E peerAddress \in PeerAddresses, keys \in KeySets :
        StoreOp(storeKeys(store, peerAddress, keys), "storeKeys", peerAddress, keys)

StoreCccd ==
    \E peerAddress \in PeerAddresses, value \in {0, 1} :
        StoreOp(storage_storeCccd(store, peerAddress, 3, value), "storeCccd", peerAddress, NoKeys)

StoreGattCache ==
    \E peerAddress \in PeerAddresses :
        StoreOp(storeGattCache(store, peerAddress, [hasAllPrimaryServices |-> FALSE]),
                "storeGattCache", peerAddress, NoKeys)

RemoveBond ==
    \E peerAddress \in PeerAddresses :
        StoreOp(removeBond(store, peerAddress), "removeBond", peerAddress, NoKeys)

\* the process ends and a new one starts with an empty cache
Restart ==
    /\ store.loaded
    /\ StoreOp([store EXCEPT !.loaded = FALSE, !.cache = Storage.cache], "restart", 0, NoKeys)

(***************************************************************************)
(* The permission check on a link whose security changes.  The record      *)
(* `link` holds smp (isEncrypted, hasLtk and the mitm and sc flags of      *)
(* currentEncryptionLevel), and the last check made: perm, isWrite and     *)
(* err, the error code checkPerm returned.                                 *)
(***************************************************************************)
MaxLinkOps == 4      \* security changes and permission checks on the link

Perms == {"not-permitted", "open", "custom", "encrypted", "encrypted-mitm", "encrypted-mitm-sc"}

Link == [smp |-> smp, perm |-> "", isWrite |-> FALSE, err |-> "", nOps |-> 0]

LinkOp(l) ==
    /\ link.nOps < MaxLinkOps
    /\ link' = [l EXCEPT !.nOps = link.nOps + 1]
    /\ UNCHANGED <<att, hci, gatt, client, cache, store, reads, srv, fifo, info, codec>>

\* the keys of a bond are stored or found
LtkStored ==
    /\ ~link.smp.hasLtk
    /\ LinkOp([link EXCEPT !.smp.hasLtk = TRUE])

\* encryption starts or is refreshed at some level
EncryptionChange ==
    \E mitm \in BOOLEAN, sc \in BOOLEAN :
        LinkOp([link EXCEPT !.smp.isEncrypted = TRUE, !.smp.mitm = mitm, !.smp.sc = sc])

CheckPermission ==
    \E perm \in Perms, isWrite \in BOOLEAN :
        LinkOp([link EXCEPT !.perm = perm, !.isWrite = isWrite,
                            !.err = checkPerm_smp(link.smp, perm, isWrite)])

(***************************************************************************)
(* The ATT server answering READ_BY_TYPE_REQUEST and                       *)
(* READ_BY_GROUP_TYPE_REQUEST.  The record `reads` holds the request under *)
(* way (the variables of the handler: opcode, startingHandle,              *)
(* endingHandle, attributeType, requestMtu, list, lastErr, errorHandle and *)
(* i, the handle whose read is awaited), phase ("idle", "reading" while a  *)
(* read callback is awaited, "done" when the response was sent), response  *)
(* (the PDU sent: an error response as opcode, handle and err, any other   *)
(* as its bytes) and, for the environment, callbacks (what the read        *)
(* callbacks of the request delivered, in order) and nOps.                 *)
(***************************************************************************)
READ_BY_TYPE_REQUEST == 8
READ_BY_TYPE_RESPONSE == 9
READ_BY_GROUP_TYPE_REQUEST == 16
READ_BY_GROUP_TYPE_RESPONSE == 17

NoItem == [uuid |-> 0, readPerm |-> "open", value |-> <<>>, groupEndHandle |-> 0]

\* attDb of the server, by handle: four services (the third with a 128-bit
\* UUID, the second followed by a free handle), then four services of one
\* or two handles
ReadDb ==
    LET ServiceItem(value, end) ==
            [uuid |-> 10240, readPerm |-> "open", value |-> value, groupEndHandle |-> end]
        AttributeItem(uuid, perm) ==
            [uuid |-> uuid, readPerm |-> perm, value |-> <<>>, groupEndHandle |-> 0]
    IN  << ServiceItem(<<0, 24>>, 3), AttributeItem(10243, "open"), AttributeItem(10752, "open"),
           ServiceItem(<<1, 24>>, 5), AttributeItem(10243, "open"), NoItem,
           ServiceItem([b \in 1..16 |-> b], 8), AttributeItem(10243, "not-permitted"),
           ServiceItem(<<10, 24>>, 0), ServiceItem(<<15, 24>>, 11), AttributeItem(10243, "open"),
           ServiceItem(<<18, 24>>, 0), ServiceItem(<<19, 24>>, 0) >>

NoResponse == [opcode |-> 0, handle |-> 0, err |-> "OK", bytes |-> <<>>]

Reads ==
    [phase |-> "idle", opcode |-> 0, startingHandle |-> 0, endingHandle |-> 0,
     attributeType |-> 0, requestMtu |-> 0, list |-> <<>>, lastErr |-> "OK",
     errorHandle |-> 0, i |-> 0, response |-> NoResponse, callbacks |-> <<>>, nOps |-> 0]

reads_sendErrorResponse(r, handle, err) ==
    [r EXCEPT !.phase = "done",
              !.response = [opcode |-> ERROR_RESPONSE, handle |-> handle, err |-> err,
                            bytes |-> <<>>]]

reads_sendResponse(r, ret) ==
    [r EXCEPT !.phase = "done",
              !.response = [opcode |-> ret[1], handle |-> 0, err |-> "OK", bytes |-> ret]]

\* the entries of list one after the other: the handle (or, for groups, the
\* start and end handles) and the value
RECURSIVE reads_ret(_, _)
reads_ret(list, groups) ==
    IF list = <<>> THEN <<>>
    ELSE writeUInt16LE(list[1].handle)
            \o (IF groups THEN writeUInt16LE(list[1].end) ELSE <<>>)
            \o list[1].value \o reads_ret(Tail(list), groups)

readByType_doneFn(r) ==
    IF r.lastErr # "OK" THEN reads_sendErrorResponse(r, r.errorHandle, r.lastErr)
    ELSE IF r.list = <<>>
    THEN reads_sendErrorResponse(r, r.startingHandle, "ATTRIBUTE_NOT_FOUND")
    ELSE reads_sendResponse(
             r, <<READ_BY_TYPE_RESPONSE, 2 + Len(r.list[1].value)>>
                    \o reads_ret(r.list, FALSE))

readByType_nextFn(r, i) ==
    LET matching == {j \in i..r.endingHandle : ReadDb[j].uuid = r.attributeType}
        next == CHOOSE j \in matching : \A k \in matching : j <= k
    IN  IF matching = {} THEN readByType_doneFn(r)
        ELSE IF checkReadPermission(ReadDb[next]) # "OK"
        THEN readByType_doneFn([r EXCEPT !.lastErr = checkReadPermission(ReadDb[next]),
                                         !.errorHandle = next])
        ELSE [r EXCEPT !.phase = "reading", !.i = next]

\* the read callback that takes a value of any length into the list
readByType_read_anyLength(r, err, v) ==
    LET value == slice(v, 0, Min(253, r.requestMtu - 4))
    IN  IF err # "OK"
        THEN readByType_doneFn([r EXCEPT !.lastErr = err, !.errorHandle = r.i])
        ELSE IF 2 + (2 + Len(value)) * (Len(r.list) + 1) <= r.requestMtu
        THEN readByType_nextFn([r EXCEPT !.list = Append(@, [handle |-> r.i, end |-> r.i,
                                                               value |-> value])],
                               r.i + 1)
        ELSE readByType_doneFn(r)

\* the callback of item.read in the READ_BY_TYPE_REQUEST handler
readByType_read(r, err, v) ==
    LET value == slice(v, 0, Min(253, r.requestMtu - 4))
    IN  IF err # "OK"
        THEN readByType_doneFn([r EXCEPT !.lastErr = err, !.errorHandle = r.i])
        ELSE IF /\ r.list = <<>> \/ Len(r.list[1].value) = Len(value)
                /\ 2 + (2 + Len(value)) * (Len(r.list) + 1) <= r.requestMtu
        THEN readByType_nextFn([r EXCEPT !.list = Append(@, [handle |-> r.i, end |-> r.i,
                                                               value |-> value])],
                               r.i + 1)
        ELSE readByType_doneFn(r)

\* the request with its variables set
reads_request(opcode, startingHandle, endingHandle, attributeType, currentMtu) ==
    [Reads EXCEPT !.opcode = opcode, !.startingHandle = startingHandle,
                  !.endingHandle = Min(endingHandle, Len(ReadDb)),
                  !.attributeType = attributeType, !.requestMtu = currentMtu]

readByType(startingHandle, endingHandle, attributeType, currentMtu) ==
    LET r == reads_request(READ_BY_TYPE_REQUEST, startingHandle, endingHandle,
                           attributeType, currentMtu)
    IN  IF startingHandle = 0 \/ startingHandle > endingHandle
        THEN reads_sendErrorResponse(r, startingHandle, "INVALID_HANDLE")
        ELSE readByType_nextFn(r, startingHandle)

\* the loop of the READ_BY_GROUP_TYPE_REQUEST handler from handle i on
RECURSIVE readByGroupType_loop(_, _)
readByGroupType_loop(r, i) ==
    IF i > r.endingHandle THEN r
    ELSE IF ReadDb[i].uuid # r.attributeType THEN readByGroupType_loop(r, i + 1)
    ELSE LET value == slice(ReadDb[i].value, 0, Min(251, r.requestMtu - 6))
         IN  IF /\ r.list # <<>>
                /\ \/ Len(r.list[1].value) # Len(value)
                   \/ 2 + (4 + Len(value)) * (Len(r.list) + 1) > r.requestMtu
             THEN r
             ELSE readByGroupType_loop(
                      [r EXCEPT !.list = Append(@, [handle |-> i,
                                                    end |-> IF ReadDb[i].groupEndHandle # 0
                                                            THEN ReadDb[i].groupEndHandle ELSE i,
                                                    value |-> value])],
                      i + 1)

readByGroupType(startingHandle, endingHandle, attributeGroupType, currentMtu) ==
    LET r0 == reads_request(READ_BY_GROUP_TYPE_REQUEST, startingHandle, endingHandle,
                            attributeGroupType, currentMtu)
        r == readByGroupType_loop(r0, startingHandle)
    IN  IF startingHandle = 0 \/ startingHandle > endingHandle
        THEN reads_sendErrorResponse(r0, startingHandle, "INVALID_HANDLE")
        ELSE IF attributeGroupType \notin {10240, 10241}
        THEN reads_sendErrorResponse(r0, startingHandle, "UNSUPPORTED_GROUP_TYPE")
        ELSE IF r.list = <<>>
        THEN reads_sendErrorResponse(r, startingHandle, "ATTRIBUTE_NOT_FOUND")
        ELSE reads_sendResponse(
                 r, <<READ_BY_GROUP_TYPE_RESPONSE, 4 + Len(r.list[1].value)>>
                        \o reads_ret(r.list, TRUE))

(***************************************************************************)
(* The requests of a client and the answers of the read handlers.          *)
(***************************************************************************)
MaxReadOps == 5      \* requests received and read callbacks invoked

StartingHandles == {0, 1, 2, 5, 9}

EndingHandles == {3, 8, 13, 65535}

AttributeTypes == {10240, 10241, 10243, 10752}

\* the values a read handler may deliver
ReadValues == {[b \in 1..n |-> n] : n \in {0, 1, 2, 30}}

ReadsOp(r, callbacks) ==
    /\ reads.nOps < MaxReadOps
    /\ reads' = [r EXCEPT !.nOps = reads.nOps + 1, !.callbacks = callbacks]
    /\ UNCHANGED <<att, hci, gatt, client, cache, store, link, srv, fifo, info, codec>>

ReadByTypeRequest ==
    /\ reads.phase # "reading"
    /\ \E startingHandle \in StartingHandles, endingHandle \in EndingHandles,
          attributeType \in AttributeTypes :
          ReadsOp(readByType(startingHandle, endingHandle, attributeType, att.currentMtu),
                  <<>>)

ReadByTypeCallback ==
    /\ reads.phase = "reading"
    /\ \E err \in {"OK", "INSUFFICIENT_AUTHORIZATION"}, value \in ReadValues :
          ReadsOp(readByType_read(reads, err, value),
                  Append(reads.callbacks, [handle |-> reads.i, err |-> err, value |-> value]))

ReadByGroupTypeRequest ==
    /\ reads.phase # "reading"
    /\ \E startingHandle \in StartingHandles, endingHandle \in EndingHandles,
          attributeGroupType \in AttributeTypes :
          ReadsOp(readByGroupType(startingHandle, endingHandle, attributeGroupType,
                                  att.currentMtu),
                  <<>>)

(***************************************************************************)
(* The read and write functions of a characteristic value, and the READ    *)
(* and WRITE branches of the data handler that call them.                  *)
(*                                                                         *)
(* Program state: isHandlingRequest and connection.disconnected, and the   *)
(* closures the functions handed to the user's handlers: each is one       *)
(* function object with its own usedAuthorizeCallback / usedCallback       *)
(* variable, which the user may call at any time and any number of times.  *)
(* createAuthorizeWriteFn's closure has no such variable.                  *)
(*                                                                         *)
(* Environment: out (the response PDUs passed to sendResponse), handled    *)
(* (the calls of onPartialRead, onRead, onPartialWrite and onWrite),       *)
(* unsent (responses whose sent-callback is still owed), waiting (the      *)
(* requests whose authorisation was outstanding when the connection        *)
(* disconnected), accepted and authorised (the requests the data handler   *)
(* took up, and those whose authorisation function was called), nClosures  *)
(* and nOps.                                                               *)
(***************************************************************************)
AttServer ==
    [isHandlingRequest |-> FALSE,
     disconnected |-> FALSE,
     closures |-> {},
     \* environment
     out |-> <<>>,
     handled |-> <<>>,
     unsent |-> 0,
     waiting |-> {},
     accepted |-> {},
     authorised |-> {},
     nClosures |-> 0,
     nOps |-> 0]

srv_sendResponse(s, rid, op) ==
    [s EXCEPT !.isHandlingRequest = TRUE,
              !.out = Append(@, [rid |-> rid, op |-> op]),
              !.unsent = @ + 1]

srv_sendErrorResponse(s, rid) == srv_sendResponse(s, rid, ERROR_RESPONSE)

Closure(s, kind, req) ==
    [s EXCEPT !.closures = @ \cup {[kind |-> kind, id |-> s.nClosures + 1, used |-> FALSE,
                                    req |-> req]},
              !.nClosures = @ + 1]

Use(s, c) == [s EXCEPT !.closures = (@ \ {c}) \cup {[c EXCEPT !.used = TRUE]}]

\* the callback the READ_REQUEST branch passes to item.read
READ_REQUEST_callback(s, req, err) ==
    IF err # "OK" THEN srv_sendErrorResponse(s, req.rid)
    ELSE srv_sendResponse(s, req.rid, READ_RESPONSE)

\* cont of createReadFn, at offset 0
createReadFn_cont(s, req) ==
    IF req.item.readFn \in {"onPartialRead", "onRead"}
    THEN Closure([s EXCEPT !.handled = Append(@, [rid |-> req.rid, fn |-> req.item.readFn])],
                 "read", req)
    ELSE READ_REQUEST_callback(s, req, "OK")

\* item.read of a characteristic value
item_read(s, req) ==
    IF req.item.readPerm = "custom" THEN Closure(s, "authorizeRead", req)
    ELSE createReadFn_cont(s, req)

\* the function createReadFn passes to onAuthorizeRead
onAuthorizeRead_callback(s, c, err) ==
    IF c.used THEN s
    ELSE LET s1 == Use(s, c)
         IN  IF ~s1.disconnected
             THEN IF err # "OK" THEN READ_REQUEST_callback(s1, c.req, err)
                  ELSE createReadFn_cont(s1, c.req)
             ELSE s1

\* the function createReadFn passes to onPartialRead and to onRead
onRead_callback(s, c, err) ==
    IF c.used THEN s
    ELSE READ_REQUEST_callback(Use(s, c), c.req, err)

\* the callback the WRITE branch's authorize callback passes to item.write
WRITE_callback(s, req, err) ==
    IF req.op # WRITE_COMMAND
    THEN IF err # "OK" THEN srv_sendErrorResponse(s, req.rid)
         ELSE srv_sendResponse(s, req.rid, WRITE_RESPONSE)
    ELSE s

\* item.write of a characteristic value, at offset 0 with a value that fits
item_write(s, req) ==
    IF req.item.writeFn \in {"onPartialWrite", "onWrite"}
    THEN Closure([s EXCEPT !.handled = Append(@, [rid |-> req.rid, fn |-> req.item.writeFn])],
                 "write", req)
    ELSE WRITE_callback(s, req, "OK")

\* the callback the WRITE branch passes to item.authorizeWrite
WRITE_authorized(s, req, err) ==
    IF s.disconnected THEN s
    ELSE IF err # "OK"
    THEN IF req.op # WRITE_COMMAND THEN srv_sendErrorResponse(s, req.rid) ELSE s
    ELSE IF req.tooLong THEN srv_sendErrorResponse(s, req.rid)
    ELSE item_write(s, req)

\* the same callback behind a flag that lets only its first call through
createAuthorizeWriteFn_callback_once(s, c, err) ==
    IF c.used THEN s ELSE WRITE_authorized(Use(s, c), c.req, err)

\* the function createAuthorizeWriteFn passes to onAuthorizeWrite
createAuthorizeWriteFn_callback(s, c, err) == WRITE_authorized(s, c.req, err)

\* item.authorizeWrite of a characteristic value
item_authorizeWrite(s, req) ==
    IF req.item.writePerm # "custom" THEN WRITE_authorized(s, req, "OK")
    ELSE Closure(s, "authorizeWrite", req)

\* the function createWriteFn passes to onPartialWrite and to onWrite
onWrite_callback(s, c, err) ==
    IF c.used THEN s
    ELSE WRITE_callback(Use(s, c), c.req, err)

\* the data handler on a well-formed READ_REQUEST, WRITE_REQUEST or
\* WRITE_COMMAND for an attribute whose permission check passes
srv_onData(s, op, item, tooLong) ==
    IF s.isHandlingRequest /\ isKnownRequestOpcode(op) THEN s
    ELSE LET req == [rid |-> s.nOps + 1, op |-> op, item |-> item, tooLong |-> tooLong]
             s1 == [s EXCEPT !.accepted = @ \cup {req.rid}]
         IN  IF op = READ_REQUEST
             THEN item_read([s1 EXCEPT !.isHandlingRequest = TRUE], req)
             ELSE item_authorizeWrite(
                      [s1 EXCEPT !.isHandlingRequest = (@ \/ op # WRITE_COMMAND)], req)

\* the sent-callback of sendResponse
srv_sent(s) == [s EXCEPT !.isHandlingRequest = FALSE, !.unsent = @ - 1]

\* the connection's disconnect
srv_disconnect(s) ==
    [s EXCEPT !.disconnected = TRUE,
              !.waiting = {c.req.rid : c \in {k \in s.closures :
                               /\ k.kind \in {"authorizeRead", "authorizeWrite"}
                               /\ k.req.rid \notin s.authorised}}]

MaxServerOps == 5

\* the characteristic values: who authorises, and which handler reads and
\* writes
Items ==
    {[readPerm |-> "open", readFn |-> "onRead", writePerm |-> "open", writeFn |-> "onWrite"],
     [readPerm |-> "custom", readFn |-> "onPartialRead",
      writePerm |-> "custom", writeFn |-> "onPartialWrite"],
     [readPerm |-> "custom", readFn |-> "value", writePerm |-> "custom", writeFn |-> "value"]}

RequestOpcodes == {READ_REQUEST, WRITE_REQUEST, WRITE_COMMAND}

UserErrors == {"OK", "UNLIKELY_ERROR"}

ServerOp(s) == srv' = [s EXCEPT !.nOps = @ + 1]

ServerRequest ==
    /\ srv.nOps < MaxServerOps
    /\ ~srv.disconnected
    /\ \E op \in RequestOpcodes, item \in Items, tooLong \in BOOLEAN :
          /\ tooLong => op # READ_REQUEST
          /\ ServerOp(srv_onData(srv, op, item, tooLong))
    /\ UNCHANGED <<att, hci, gatt, client, cache, store, link, reads, fifo, info, codec>>

\* a user handler calls the function it was given
UserCallback ==
    /\ srv.nOps < MaxServerOps
    /\ \E c \in srv.closures, err \in UserErrors :
          LET s == [srv EXCEPT !.authorised =
                                  IF c.kind \in {"authorizeRead", "authorizeWrite"}
                                  THEN @ \cup {c.req.rid} ELSE @]
          IN  ServerOp(CASE c.kind = "authorizeRead" -> onAuthorizeRead_callback(s, c, err)
                         [] c.kind = "read" -> onRead_callback(s, c, err)
                         [] c.kind = "authorizeWrite" ->
                                createAuthorizeWriteFn_callback(s, c, err)
                         [] c.kind = "write" -> onWrite_callback(s, c, err))
    /\ UNCHANGED <<att, hci, gatt, client, cache, store, link, reads, fifo, info, codec>>

ResponseSent ==
    /\ srv.nOps < MaxServerOps
    /\ srv.unsent > 0
    /\ ServerOp(srv_sent(srv))
    /\ UNCHANGED <<att, hci, gatt, client, cache, store, link, reads, fifo, info, codec>>

ServerDisconnect ==
    /\ srv.nOps < MaxServerOps
    /\ ~srv.disconnected
    /\ ServerOp(srv_disconnect(srv))
    /\ UNCHANGED <<att, hci, gatt, client, cache, store, link, reads, fifo, info, codec>>

(***************************************************************************)
(* utils.Queue on its own: one queue, the items pushed to it (pushed) and  *)
(* what each call of shift returned (shifted), with the number of pushes   *)
(* made before the call.                                                   *)
(***************************************************************************)
QueueUser == [Q |-> Queue_new, pushed |-> <<>>, shifted |-> <<>>]

queue_push(u, item) ==
    [u EXCEPT !.Q = Queue_push(@, item), !.pushed = Append(@, item)]

queue_shift(u) ==
    [u EXCEPT !.Q = Queue_shift(@),
              !.shifted = Append(@, [elem |-> Queue_shift_elem(u.Q), pushes |-> Len(u.pushed)])]

MaxQueueOps == 6

QueueItems(n) == {[op |-> op, id |-> n, len |-> 1] : op \in {READ_REQUEST, WRITE_REQUEST}}

QueuePush ==
    /\ Len(fifo.pushed) + Len(fifo.shifted) < MaxQueueOps
    /\ \E item \in QueueItems(Len(fifo.pushed) + 1) : fifo' = queue_push(fifo, item)
    /\ UNCHANGED <<att, hci, gatt, client, cache, store, link, reads, srv, info, codec>>

QueueShift ==
    /\ Len(fifo.pushed) + Len(fifo.shifted) < MaxQueueOps
    /\ fifo' = queue_shift(fifo)
    /\ UNCHANGED <<att, hci, gatt, client, cache, store, link, reads, srv, info, codec>>

(***************************************************************************)
(* The FIND_INFORMATION_REQUEST branch of the data handler.                *)
(*                                                                         *)
(* InfoDb stands for attDb: handle 0 is never used, a handle outside the   *)
(* domain is a hole of the array.  uuid16 is Null for an attribute with a  *)
(* 128-bit UUID.  Program state: currentMtu.  Environment: response, the   *)
(* buffer passed to sendResponse by the last request (list holds one       *)
(* entry per attribute, len is the buffer's length), and nOps.             *)
(***************************************************************************)
InfoDb ==
    [h \in (1..7) \cup (9..13) |->
        IF h \in 9..11 THEN [uuid16 |-> Null, uuid |-> h] ELSE [uuid16 |-> 10240 + h, uuid |-> h]]

\* attDb.length
InfoDb_length == (CHOOSE n \in DOMAIN InfoDb : \A k \in DOMAIN InfoDb : k <= n) + 1

InfoServer ==
    [currentMtu |-> 23,
     \* environment
     response |-> [op |-> 0, format |-> 0, list |-> <<>>, len |-> 0],
     nOps |-> 0]

info_sendErrorResponse(s) ==
    [s EXCEPT !.response = [op |-> ERROR_RESPONSE, format |-> 0, list |-> <<>>, len |-> 5]]

\* the for loop over the handles: <<format, list>>
RECURSIVE findInformation_loop(_, _, _, _, _, _)
findInformation_loop(i, endingHandle, max16, max128, format, list) ==
    IF i > endingHandle THEN <<format, list>>
    ELSE IF i \in DOMAIN InfoDb
    THEN LET item == InfoDb[i]
         IN  IF item.uuid16 # Null
             THEN IF format = 2 \/ Len(list) = max16 THEN <<format, list>>
                  ELSE findInformation_loop(i + 1, endingHandle, max16, max128, 1,
                                            Append(list, [handle |-> i, bytes |-> 2]))
             ELSE IF format = 1 \/ Len(list) = max128 THEN <<format, list>>
                  ELSE findInformation_loop(i + 1, endingHandle, max16, max128, 2,
                                            Append(list, [handle |-> i, bytes |-> 16]))
    ELSE findInformation_loop(i + 1, endingHandle, max16, max128, format, list)

\* the branch on a request of 5 bytes
onData_FIND_INFORMATION_REQUEST(s, startingHandle, endingHandle0) ==
    IF startingHandle = 0 \/ startingHandle > endingHandle0 THEN info_sendErrorResponse(s)
    ELSE LET endingHandle == Min(endingHandle0, InfoDb_length - 1)
             max16 == (s.currentMtu - 2) \div 2
             max128 == (s.currentMtu - 2) \div 16
             r == findInformation_loop(startingHandle, endingHandle, max16, max128, 0, <<>>)
             format == r[1]
             list == r[2]
         IN  IF format = 0 THEN info_sendErrorResponse(s)
             ELSE [s EXCEPT !.response =
                      [op |-> FIND_INFORMATION_RESPONSE, format |-> format, list |-> list,
                       len |-> 2 + (IF format = 1 THEN 4 ELSE 18) * Len(list)]]

\* the MTU a completed exchange leaves behind
info_exchangeMtu(s, newMTU) ==
    IF s.currentMtu = 23 /\ newMTU # 23 THEN [s EXCEPT !.currentMtu = newMTU] ELSE s

MaxInfoOps == 3

InfoHandles == 0..(InfoDb_length + 1)

InfoOp(s) == info.nOps < MaxInfoOps /\ info' = [s EXCEPT !.nOps = @ + 1]

FindInformationRequest ==
    /\ \E startingHandle \in InfoHandles, endingHandle \in InfoHandles :
          InfoOp(onData_FIND_INFORMATION_REQUEST(info, startingHandle, endingHandle))
    /\ UNCHANGED <<att, hci, gatt, client, cache, store, link, reads, srv, fifo, codec>>

InfoExchangeMtu ==
    /\ \E newMTU \in {23, 40, 100} : InfoOp(info_exchangeMtu(info, newMTU))
    /\ UNCHANGED <<att, hci, gatt, client, cache, store, link, reads, srv, fifo, codec>>

(***************************************************************************)
(* The UUID codec: serializeUuid, fixUuid and getFullUuid.                 *)
(*                                                                         *)
(* A string is a sequence of characters: 0..15 stand for '0'..'9' and      *)
(* 'A'..'F', 16..21 for 'a'..'f', and 22 for '-'.  A value of the          *)
(* parameter type string | number | Buffer is a record with its kind, the  *)
(* number in n, the characters or the bytes in s.  The record `codec`      *)
(* holds the last UUID the application used, what serializeUuid returned   *)
(* for it and what getFullUuid made of that.                               *)
(***************************************************************************)
Number(n) == [kind |-> "number", n |-> n, s |-> <<>>]

String(s) == [kind |-> "string", n |-> 0, s |-> s]

Buffer(s) == [kind |-> "buffer", n |-> 0, s |-> s]

Hyphen == 16 + 6

\* '-0000-1000-8000-00805F9B34FB'
BASE_UUID_SECOND_PART ==
    <<Hyphen, 0, 0, 0, 0, Hyphen, 1, 0, 0, 0, Hyphen, 8, 0, 0, 0, Hyphen,
      0, 0, 8, 0, 5, 15, 9, 11, 3, 4, 15, 11>>

toUpperCase(str) == [i \in DOMAIN str |-> IF str[i] \in 16..21 THEN str[i] - 6 ELSE str[i]]

toLowerCase(str) == [i \in DOMAIN str |-> IF str[i] \in 10..15 THEN str[i] + 6 ELSE str[i]]

\* str.substr(start, length) and str.substr(start)
substr(str, start, length) == SubSeq(str, start + 1, Min(start + length, Len(str)))

substr_from(str, start) == SubSeq(str, start + 1, Len(str))

\* str.replace(/-/g, '')
removeHyphens(str) == LET IsDigit(c) == c # Hyphen IN SelectSeq(str, IsDigit)

\* the value of a hexadecimal digit
parseHexDigit(c) == IF c \in 16..21 THEN c - 6 ELSE c

\* Buffer.from(str, 'hex') for a string of hexadecimal digits
codec_Buffer_from_hex(str) ==
    [i \in 1..(Len(str) \div 2) |->
        16 * parseHexDigit(str[2 * i - 1]) + parseHexDigit(str[2 * i])]

\* buffer.toString('hex'): lower-case digits
codec_toString_hex(buffer) ==
    LET digit(d) == IF d >= 10 THEN d + 6 ELSE d
    IN  [i \in 1..(2 * Len(buffer)) |->
            IF i % 2 = 1 THEN digit(buffer[(i + 1) \div 2] \div 16)
            ELSE digit(buffer[i \div 2] % 16)]

reverse(buffer) == [i \in 1..Len(buffer) |-> buffer[Len(buffer) + 1 - i]]

\* the string matches /^[0-9a-fA-F]{8}-([0-9a-fA-F]{4}-){3}[0-9a-fA-F]{12}$/
isUuidString(str) ==
    /\ Len(str) = 36
    /\ \A i \in 1..36 : (str[i] = Hyphen) <=> (i \in {9, 14, 19, 24})

\* an empty buffer stands for the Error it throws.  Buffer.from takes each
\* element of the array modulo 256, and the boolean uuid > 8 as 1 or 0.
serializeUuid(uuid) ==
    IF uuid.kind = "string"
    THEN IF substr_from(uuid.s, 8) = BASE_UUID_SECOND_PART /\ substr(uuid.s, 0, 4) = <<0, 0, 0, 0>>
         THEN Buffer(reverse(codec_Buffer_from_hex(substr(uuid.s, 4, 4))))
         ELSE LET ret == reverse(codec_Buffer_from_hex(removeHyphens(uuid.s)))
              IN  IF Len(ret) = 16 THEN Buffer(ret) ELSE Buffer(<<>>)
    ELSE IF uuid.n >= 0 /\ uuid.n <= 65535
    THEN Buffer(<<uuid.n % 256, IF uuid.n > 8 THEN 1 ELSE 0>>)
    ELSE Buffer(<<>>)

\* (0x100000000 + v).toString(16).substr(-8).toUpperCase()
hex8(v) == [i \in 1..8 |-> (v \div (16 ^ (8 - i))) % 16]

\* an empty string stands for null
getFullUuid(v0) ==
    LET v == IF v0.kind = "buffer" /\ Len(v0.s) = 2
             THEN Number(v0.s[1] + 256 * v0.s[2]) ELSE v0
    IN  IF v.kind = "number" THEN hex8(v.n) \o BASE_UUID_SECOND_PART
        ELSE IF v.kind = "string" THEN toUpperCase(v.s)
        ELSE IF Len(v.s) = 16
        THEN LET uuid == toUpperCase(codec_toString_hex(reverse(v.s)))
             IN  substr(uuid, 0, 8) \o <<Hyphen>> \o substr(uuid, 8, 4) \o <<Hyphen>>
                     \o substr(uuid, 12, 4) \o <<Hyphen>> \o substr(uuid, 16, 4) \o <<Hyphen>>
                     \o substr(uuid, 20, 12)
        ELSE <<>>

\* an empty string stands for the Error validate throws
fixUuid(uuid) ==
    IF uuid.kind = "string" /\ isUuidString(uuid.s) THEN toUpperCase(uuid.s)
    ELSE IF uuid.kind = "number" /\ uuid.n >= 0 /\ uuid.n <= 65535 THEN getFullUuid(uuid)
    ELSE <<>>

Codec == [uuid |-> Number(0), serialized |-> Buffer(<<>>), full |-> <<>>, used |-> FALSE]

\* the UUIDs the application uses: 16-bit integers, and strings with the
\* Bluetooth base or another tail, in upper and in lower case
UuidIntegers ==
    (0..20) \cup (250..260) \cup (505..515) \cup (10240..10250) \cup (65530..65535)

UuidStrings ==
    LET head == {<<0, 0, 0, 0>>, <<0, 0, 0, 1>>, <<10, 11, 12, 13>>}
        short == {<<2, 8, 0, 0>>, <<2, 10, 1, 9>>, <<15, 15, 15, 15>>, <<0, 0, 0, 9>>}
        tail == {BASE_UUID_SECOND_PART,
                 [BASE_UUID_SECOND_PART EXCEPT ![28] = 10]}
        upper == {a \o b \o c : a \in head, b \in short, c \in tail}
    IN  upper \cup {toLowerCase(str) : str \in upper}

Uuids == {Number(n) : n \in UuidIntegers} \cup {String(str) : str \in UuidStrings}

\* the application passes a UUID to a request, which serializes it, and the
\* peer's answer is read back with getFullUuid
UseUuid ==
    /\ \E uuid \in Uuids :
          codec' = [uuid |-> uuid, serialized |-> serializeUuid(uuid),
                    full |-> getFullUuid(serializeUuid(uuid)), used |-> TRUE]
    /\ UNCHANGED <<att, hci, gatt, client, cache, store, link, reads, srv, fifo, info>>

(***************************************************************************)
(* Specifications: the ATT engine of one connection, the HCI adapter's     *)
(* commands and outbound data, and the HCI adapter's inbound data.         *)
(***************************************************************************)
Init ==
    /\ att = AttConnection /\ hci = HciAdapter /\ gatt = GattServerDb
    /\ client = GattConnection
    /\ cache = DuplicateCache
    /\ store = Storage
    /\ link = Link
    /\ reads = Reads
    /\ srv = AttServer
    /\ fifo = QueueUser
    /\ info = InfoServer
    /\ codec = Codec

NextAtt ==
    \/ ExchangeMtu \/ Read \/ Notify \/ Indicate \/ ReceiveData \/ Flush
    \/ ReadDone \/ AuthorizeWriteDone \/ WriteDone \/ AuthorizePrepareDone \/ ConfirmDone
    \/ SentCallback \/ RequestTimeout \/ IndicationTimeout

SpecAtt == Init /\ [][NextAtt]_vars

NextResponses ==
    \/ ExchangeMtu \/ FindInformation \/ Read \/ ReceiveResponse
    \/ SentCallback \/ RequestTimeout

SpecResponses == Init /\ [][NextResponses]_vars

NextReadMultiple == ReceiveReadMultiple \/ ReadMultipleDone \/ SentCallback

SpecReadMultiple == Init /\ [][NextReadMultiple]_vars

NextPrepare == PrepareWriteRequest \/ ExecuteCancel \/ PrepareAuthorized \/ PrepareSent

SpecPrepare == Init /\ [][NextPrepare]_vars

NextHci ==
    \/ Reset \/ ReadBufferSize \/ LeReadBufferSize \/ LeSetAdvertisingEnable \/ Disconnect
    \/ SendData \/ Stop
    \/ CommandEvent \/ DisconnectionComplete \/ HardwareError \/ NumberOfCompletePackets
    \/ LeConnectionComplete

SpecHci == Init /\ [][NextHci]_vars

NextAcl ==
    \/ LeConnectionComplete \/ DisconnectionComplete
    \/ RemoteSend \/ DeliverFragment \/ Stray

SpecAcl == Init /\ [][NextAcl]_vars

NextDb == AddServices \/ RemoveService

SpecDb == Init /\ [][NextDb]_vars

NextGatt ==
    \/ AddProfile \/ Connected1 \/ Connected2 \/ Bonded \/ CccdWrite \/ Disconnected
    \/ NotifyOrIndicate

SpecGatt == Init /\ [][NextGatt]_vars

NextClient == ServicesChanged \/ DiscoverAllPrimaryServices \/ InvalidateServices

SpecClient == Init /\ [][NextClient]_vars

NextWrite ==
    \/ BeginReliableWrite \/ EndReliableWrite \/ ClientWrite
    \/ ClientWriteResponse \/ ClientPrepareWriteResponse \/ ClientExecuteWriteResponse

SpecWrite == Init /\ [][NextWrite]_vars

NextCache == CacheAdd \/ CacheRemove

SpecCache == Init /\ [][NextCache]_vars

NextStore == StoreKeys \/ StoreCccd \/ StoreGattCache \/ RemoveBond \/ Restart

SpecStore == Init /\ [][NextStore]_vars

NextLink == LtkStored \/ EncryptionChange \/ CheckPermission

SpecLink == Init /\ [][NextLink]_vars

NextReads == ReadByTypeRequest \/ ReadByTypeCallback \/ ReadByGroupTypeRequest

SpecReads == Init /\ [][NextReads]_vars

NextServer == ServerRequest \/ UserCallback \/ ResponseSent \/ ServerDisconnect

SpecServer == Init /\ [][NextServer]_vars

NextQueue == QueuePush \/ QueueShift

SpecQueue == Init /\ [][NextQueue]_vars

NextInfo == FindInformationRequest \/ InfoExchangeMtu

SpecInfo == Init /\ [][NextInfo]_vars

NextCodec == UseUuid

SpecCodec == Init /\ [][NextCodec]_vars

(***************************************************************************)
(* Properties of the ATT engine.                                           *)
(***************************************************************************)
IsRequestPdu(p) == p.op \in {EXCHANGE_MTU_REQUEST, READ_REQUEST}

IsResponsePdu(p) ==
    p.op \in {ERROR_RESPONSE, EXCHANGE_MTU_RESPONSE, READ_RESPONSE, WRITE_RESPONSE,
              PREPARE_WRITE_RESPONSE, EXECUTE_WRITE_RESPONSE}

IsNotificationPdu(p) == p.op = HANDLE_VALUE_NOTIFICATION

IsIndicationPdu(p) == p.op = HANDLE_VALUE_INDICATION

\* ids grow along the sequence: sent in the order issued, none sent twice
InIssueOrder(pdus) == \A i, j \in 1..Len(pdus) : i < j => pdus[i].id < pdus[j].id

IsPrefixOfIds(ids, pdus) ==
    Len(ids) <= Len(pdus) /\ \A i \in 1..Len(ids) : ids[i] = pdus[i].id

MtuExchangeInFlight ==
    att.currentOutgoingRequest # NoRequest
    /\ att.currentOutgoingRequest.responseOpcode = EXCHANGE_MTU_RESPONSE

\* C1: at most one own request is in flight, requests are handed to the lower
\* layer in the order they were issued, each once and only after the previous
\* one was answered, and they complete in that order.
C1_RequestsOneAtATimeInOrder ==
    LET requests == SelectSeq(att.out, IsRequestPdu)
    IN  /\ InIssueOrder(requests)
        /\ Len(requests) <= Len(att.completed) + 1
        /\ IsPrefixOfIds(att.completed, requests)

\* C2: while an accepted request has not had its response reported sent the
\* server is busy, a busy server leaves every request PDU without effect, and
\* responses go out in the order the requests arrived.
C2_ServerBusyUntilResponseSent ==
    /\ att.serving # {} => att.isHandlingRequest
    /\ att.isHandlingRequest =>
           \A d \in InboundPdus : isKnownRequestOpcode(d.op) => onData(att, d) = att
    /\ InIssueOrder(SelectSeq(att.out, IsResponsePdu))

\* the ids of the commands written to the transport, oldest first
WrittenCommandIds ==
    LET IsCommand(w) == w.type = COMMAND
        cmds == SelectSeq(hci.written, IsCommand)
    IN  [i \in 1..Len(cmds) |-> cmds[i].id]

WrittenCommandIdsNext ==
    LET IsCommand(w) == w.type = COMMAND
        cmds == SelectSeq(hci'.written, IsCommand)
    IN  [i \in 1..Len(cmds) |-> cmds[i].id]

Range(seq) == {seq[i] : i \in 1..Len(seq)}

RECURSIVE SumOver(_, _)
SumOver(f, S) ==
    IF S = {} THEN 0
    ELSE LET x == CHOOSE y \in S : TRUE IN f[x] + SumOver(f, S \ {x})

\* the ACL packets written to the transport
AclWritten ==
    LET IsAcl(w) == w.type = ACLDATA IN SelectSeq(hci.written, IsAcl)

EmittedOnRemote ==
    LET OnRemote(e) == e.handle = hci.remote.handle IN SelectSeq(hci.emitted, OnRemote)

C6_TimeoutIsFinal ==
    /\ [](att.timedout <=> att.timeoutCalls = 1)
    /\ [](att.timedout => \A d \in InboundPdus : onData(att, d) = att)
    /\ [][att.timedout => att'.timedout /\ att'.out = att.out]_vars
    /\ [][(att.requestTimer # att'.requestTimer /\ ~att'.requestTimer
             /\ att.currentOutgoingRequest = att'.currentOutgoingRequest
             /\ att.currentOutgoingRequest # NoRequest) => att'.timedout]_vars

\* C6 witness: after the timeout a response was attempted (the server is busy
\* with nothing left to wait for), and nothing was handed to the lower layer.
C6_Witness ==
    /\ att.timedout /\ att.timeoutCalls = 1
    /\ att.isHandlingRequest /\ att.pending = {} /\ att.thrown = {}
    /\ att.sentCallbacks = <<>>

\* C7 as stated: the MTU is within 23..517, has changed at most once, and
\* after every exchange equals min(clientRxMTU, serverRxMTU) clamped to 23.
C7_MtuEqualsExchangeResult ==
    /\ 23 <= att.currentMtu /\ att.currentMtu <= 517
    /\ att.mtuChanges <= 1
    /\ att.lastExchange # NoExchange =>
           att.currentMtu = Max(23, Min(att.lastExchange.client, att.lastExchange.server))

\* C7 amended: the MTU is within 23..517, never decreases and changes at most
\* once; an exchange carried out while the MTU is 23 sets it to
\* min(clientRxMTU, serverRxMTU) clamped to 23, a later one leaves it alone.
C7_MtuChangesOnceFrom23 ==
    /\ [](/\ 23 <= att.currentMtu /\ att.currentMtu <= 517
          /\ att.mtuChanges <= 1
          /\ att.lastExchange # NoExchange =>
                 att.currentMtu =
                     IF att.lastExchange.before = 23
                     THEN Max(23, Min(att.lastExchange.client, att.lastExchange.server))
                     ELSE att.lastExchange.before)
    /\ [][/\ att'.currentMtu >= att.currentMtu
          /\ att'.currentMtu # att.currentMtu =>
                 att.currentMtu = 23 /\ att'.lastExchange.before = 23]_vars

\* C7 witness: an exchange was carried out after the MTU had already changed,
\* and it asked for another value.
C7_Witness ==
    /\ att.lastExchange # NoExchange
    /\ att.lastExchange.before # 23
    /\ att.currentMtu # Max(23, Min(att.lastExchange.client, att.lastExchange.server))

\* C8: nothing is notified or indicated while an MTU exchange is in flight;
\* notifications reach the lower layer in the order they were issued, each
\* once and no longer than the MTU, and no indication overtakes a held one.
C8_NotificationsHeldDuringMtuExchange ==
    /\ [](InIssueOrder(SelectSeq(att.out, IsNotificationPdu)))
    /\ [](\A i \in 1..Len(att.out) : att.out[i].len <= att.currentMtu)
    /\ [](att.flushing => Len(SelectSeq(att.out, IsIndicationPdu)) = Len(att.indicationCallbacks)
                          \/ att.currentOutgoingIndication # 0)
    /\ [][(MtuExchangeInFlight /\ att'.completed = att.completed) =>
              SelectSeq(att'.out, IsNotificationPdu) = SelectSeq(att.out, IsNotificationPdu)
              /\ SelectSeq(att'.out, IsIndicationPdu) = SelectSeq(att.out, IsIndicationPdu)]_vars

\* C9: indications go out one at a time in the order they were issued, the
\* next one only after the confirmation of the current one, the callback of
\* each confirmed indication is called exactly once, and a confirmation that
\* matches no sent indication changes nothing.
C9_IndicationsOneAtATime ==
    LET indications == SelectSeq(att.out, IsIndicationPdu)
    IN  /\ InIssueOrder(indications)
        /\ Len(indications) <= Len(att.indicationCallbacks) + 1
        /\ IsPrefixOfIds(att.indicationCallbacks, indications)
        /\ (att.currentOutgoingIndication = 0 \/ ~att.currentOutgoingIndicationIsSent) =>
               onData(att, In(HANDLE_VALUE_CONFIRMATION, 1, 0, 0, 0, 0)) = att

\* C10: an Execute Write request with flag 1 that found a non-empty queue has
\* been answered by exactly one PDU once no write callback is outstanding, and
\* the prepare queue is empty until that reply is reported sent.
C10_ExecuteWriteRepliesOnce ==
    \A rid \in att.executed :
        /\ Cardinality({i \in 1..Len(att.out) :
                           att.out[i].id = rid /\ IsResponsePdu(att.out[i])}) = 1
        /\ rid \in att.serving =>
               att.prepareWriteQueue = <<>> /\ att.prepareWriteQueueSize = 0

StartsBeyond(elem) == elem.offset > attDb(elem.handle).maxLength

\* a queued entry that starts inside its attribute and ends beyond it
EndsBeyond(elem) ==
    ~StartsBeyond(elem) /\ elem.offset + elem.len > attDb(elem.handle).maxLength

\* the step is the arrival of an Execute Write request with flag 1 at a
\* non-empty queue
ExecuteArrives == att'.executed # att.executed

\* the step answers with one ERROR_RESPONSE carrying err, empties the queue
\* and starts no attribute callback
ExecuteRefusedWith(err) ==
    /\ Len(att'.out) = Len(att.out) + 1
    /\ SubSeq(att'.out, 1, Len(att.out)) = att.out
    /\ att'.out[Len(att'.out)].op = ERROR_RESPONSE
    /\ att'.out[Len(att'.out)].req = EXECUTE_WRITE_REQUEST
    /\ att'.out[Len(att'.out)].err = err
    /\ att'.prepareWriteQueue = <<>> /\ att'.prepareWriteQueueSize = 0
    /\ att'.pending = att.pending

\* C12 as stated: an Execute Write request with flag 1 that finds, anywhere
\* in the queue, an entry starting beyond the end of its attribute is
\* answered with INVALID_OFFSET, the queue is discarded and no write starts.
C12_BadOffsetAnswersInvalidOffset ==
    [][(ExecuteArrives /\ \E i \in 1..Len(att.prepareWriteQueue) :
                              StartsBeyond(att.prepareWriteQueue[i]))
          => ExecuteRefusedWith("INVALID_OFFSET")]_vars

\* C12 amended: the request is answered for the first entry that starts or
\* ends beyond its attribute, with INVALID_OFFSET and that entry's handle if
\* it starts beyond, with INVALID_ATTRIBUTE_VALUE_LENGTH if it only ends
\* beyond; either way the queue is discarded and no write starts.
C12_FirstBadEntryDecides ==
    [][ExecuteArrives =>
          \A i \in 1..Len(att.prepareWriteQueue) :
              LET elem == att.prepareWriteQueue[i]
              IN  (/\ StartsBeyond(elem) \/ EndsBeyond(elem)
                   /\ \A j \in 1..(i - 1) : /\ ~StartsBeyond(att.prepareWriteQueue[j])
                                            /\ ~EndsBeyond(att.prepareWriteQueue[j]))
                  => /\ ExecuteRefusedWith(IF StartsBeyond(elem) THEN "INVALID_OFFSET"
                                           ELSE "INVALID_ATTRIBUTE_VALUE_LENGTH")
                     /\ att'.out[Len(att'.out)].handle = elem.handle]_vars

\* C12 witness: a valid entry and one starting beyond its attribute were
\* queued, and the Execute Write request was answered with INVALID_OFFSET.
C12_Witness ==
    /\ att.executed # {}
    /\ att.prepareWriteQueue = <<>> /\ att.prepareWriteQueueSize = 0
    /\ Len(att.out) = 3
    /\ att.out[1].op = PREPARE_WRITE_RESPONSE /\ att.out[2].op = PREPARE_WRITE_RESPONSE
    /\ att.out[1].len = 6 /\ att.out[2].len = 6
    /\ att.out[3].op = ERROR_RESPONSE /\ att.out[3].err = "INVALID_OFFSET"
    /\ att.out[3].id \in att.executed
    /\ att.pending = {}

\* C13: no PDU handed to the lower layer answers a WRITE_COMMAND, whatever
\* the attribute callbacks report, and a WRITE_REQUEST whose authorised value
\* is longer than maxLength is answered with INVALID_ATTRIBUTE_VALUE_LENGTH.
C13_WriteCommandSendsNothing ==
    /\ \A i \in 1..Len(att.out) : att.out[i].req # WRITE_COMMAND
    /\ \A p \in att.pending, err \in AttributeErrors :
           /\ (p.op = WRITE_COMMAND /\ p.kind = "authorizeWrite") =>
                  authorizeWrite_done(att, p, err).out = att.out
           /\ (p.op = WRITE_COMMAND /\ p.kind = "write") => write_done(att, p, err).out = att.out
           /\ (p.op = WRITE_REQUEST /\ p.kind = "authorizeWrite"
                 /\ p.len - 3 > attDb(p.handle).maxLength) =>
                  authorizeWrite_done(att, p, "OK").out =
                      Append(att.out, Pdu(ERROR_RESPONSE, p.rid, WRITE_REQUEST, p.handle,
                                          "INVALID_ATTRIBUTE_VALUE_LENGTH", 5))

\* the rank of an error in the reply to a Read Multiple request
ErrorRank(err) ==
    CASE err = "INSUFFICIENT_AUTHORIZATION" -> 1
      [] err = "INSUFFICIENT_AUTHENTICATION" -> 2
      [] err = "INSUFFICIENT_ENCRYPTION_KEY_SIZE" -> 3
      [] err = "INSUFFICIENT_ENCRYPTION" -> 4
      [] err = "READ_NOT_PERMITTED" -> 5
      [] OTHER -> 6

\* C14: a Read Multiple request of which some handle failed has been
\* answered by one PDU, an ERROR_RESPONSE; its error has the best rank among
\* the failures and its handle is the first one that failed with that rank.
C14_ReadMultipleErrorPriority ==
    \A k \in 1..Len(att.multipleReads) :
        LET rid == att.multipleReads[k].rid
            list == att.multipleReads[k].list
            failed == {i \in 1..Len(list) : list[i].err # "OK"}
            replies == {i \in 1..Len(att.out) : att.out[i].id = rid}
        IN  failed # {} =>
                LET best == CHOOSE i \in failed :
                                \A j \in failed :
                                    \/ ErrorRank(list[i].err) < ErrorRank(list[j].err)
                                    \/ ErrorRank(list[i].err) = ErrorRank(list[j].err) /\ i <= j
                IN  /\ Cardinality(replies) = 1
                    /\ \A i \in replies :
                           /\ att.out[i].op = ERROR_RESPONSE
                           /\ ErrorRank(att.out[i].err) = ErrorRank(list[best].err)
                           /\ att.out[i].handle = list[best].handle

(***************************************************************************)
(* Properties of the GATT server database.                                 *)
(***************************************************************************)
\* the attribute runs that lie in the handle range of a placed service
AttributesIn(s) ==
    {r \in gatt.attDb : s.startHandle <= r.first /\ r.last <= s.endHandle}

FreeGaps(all, top) ==
    {gap \in {<<1, IF all = <<>> THEN top ELSE all[1].startHandle - 1>>}
               \cup {<<all[i].endHandle + 1,
                       IF i = Len(all) THEN top ELSE all[i + 1].startHandle - 1>>
                     : i \in DOMAIN all} :
        gap[1] <= gap[2]}

\* where the service is placed when it is added alone: (placed at all, startHandle)
PlaceOf(service) ==
    LET placed == addServices_place(gatt.allServices, <<addServices_toAdd(service)>>,
                                    1, <<>>)
    IN  <<placed.ok, placed.servicesToAdd[1].startHandle>>

\* where the service belongs when the handle space is 1..top: at its hint if
\* the hinted range lies inside a free gap, otherwise at the beginning of the
\* lowest free gap that can hold it; Null if no gap can
Belongs(service, top) ==
    LET n == addServices_toAdd(service).numberOfHandles
        gaps == FreeGaps(gatt.allServices, top)
        roomy == {gap \in gaps : gap[2] - gap[1] + 1 >= n}
    IN  IF /\ service.startHandle # Null
           /\ \E gap \in gaps : /\ gap[1] <= service.startHandle
                                /\ service.startHandle + n - 1 <= gap[2]
        THEN service.startHandle
        ELSE IF roomy = {} THEN Null
        ELSE CHOOSE lo \in {gap[1] : gap \in roomy} :
                 \A gap \in roomy : lo <= gap[1]

\* C16: a service that asks for a startHandle whose range lies inside a free
\* gap of the handle space 1..0xFFFF is placed there; any other service is
\* placed at the beginning of the lowest free gap large enough to hold it.
C16_HintHonouredElseLowestGap ==
    \A service \in Services :
        (/\ addServices_valid(gatt.allServices, <<service>>, 1)
         /\ Belongs(service, 65535) # Null)
            => PlaceOf(service) = <<TRUE, Belongs(service, 65535)>>

CccdCharacteristics(g) ==
    {g.allServices[ref[1]].characteristics[ref[2]] :
        ref \in {CccdRefs(g.allServices, 1)[k] : k \in DOMAIN CccdRefs(g.allServices, 1)}}

\* the CCCD value of a characteristic for a connection, as a client reads it
CccdValue(c, id) ==
    IF id \in DOMAIN c.cccds /\ c.cccds[id] # Null THEN c.cccds[id] ELSE 0

\* the value persisted for the peer and the CCCD of a characteristic, 0 if none
Persisted(g, c) ==
    IF /\ "peer" \in DOMAIN g.cccdValues
       /\ cccdHandle(c) \in DOMAIN g.cccdValues["peer"]
    THEN g.cccdValues["peer"][cccdHandle(c)] ELSE 0

\* a two byte value that a characteristic allows in its CCCD
Configurable(c, v) ==
    /\ v[2] = 0 /\ v[1] \in 0..3
    /\ v[1] % 2 = 1 => 4 \in c.properties
    /\ (v[1] \div 2) % 2 = 1 => 5 \in c.properties

\* a write that changed nothing and called nothing
Untouched(g, after) ==
    /\ after.allServices = g.allServices
    /\ after.cccdValues = g.cccdValues
    /\ after.subscriptionChanges = <<>>

\* what a write of value at offset to the CCCD of a characteristic does now
WriteNow(k, offset, value) ==
    LET ref == CccdRefs(gatt.allServices, 1)[k]
    IN  createWriteFn([gatt EXCEPT !.subscriptionChanges = <<>>, !.callback = ""],
                      ref[1], ref[2], gatt.connection, offset, value)

\* C18: a write to a CCCD is accepted only if it supplies exactly two bytes
\* at offset 0 that the characteristic allows; every other write is refused
\* with CLIENT_CHARACTERISTIC_CONFIGURATION_DESCRIPTOR_IMPROPERLY_CONFIGURED,
\* changes neither the value of the connection nor the persisted value and
\* does not call onSubscriptionChange.
C18_OnlyTwoBytesAtOffsetZero ==
    gatt.connection.state = "connected" =>
        \A k \in DOMAIN CccdRefs(gatt.allServices, 1), offset \in 0..3, value \in CccdWrites :
            LET ref == CccdRefs(gatt.allServices, 1)[k]
                c == gatt.allServices[ref[1]].characteristics[ref[2]]
                after == WriteNow(k, offset, value)
            IN  IF offset = 0 /\ Len(value) = 2 /\ Configurable(c, value)
                THEN after.callback = "OK"
                ELSE /\ after.callback =
                          "CLIENT_CHARACTERISTIC_CONFIGURATION_DESCRIPTOR_IMPROPERLY_CONFIGURED"
                     /\ Untouched(gatt, after)

\* C18 as the code has it: a write is accepted exactly if its offset is at
\* most 2, it ends at byte 2, and the two bytes made of the first offset
\* bytes of the current value followed by the written bytes are allowed by
\* the characteristic.  An offset above 2 is refused with INVALID_OFFSET,
\* else another end with INVALID_ATTRIBUTE_VALUE_LENGTH, else bytes that are
\* not allowed with the CCCD error; a refused write changes and calls nothing.
C18_TwoBytesAfterTheWrite ==
    gatt.connection.state = "connected" =>
        \A k \in DOMAIN CccdRefs(gatt.allServices, 1), offset \in 0..3, value \in CccdWrites :
            LET ref == CccdRefs(gatt.allServices, 1)[k]
                c == gatt.allServices[ref[1]].characteristics[ref[2]]
                after == WriteNow(k, offset, value)
                whole == SubSeq(<<CccdValue(c, gatt.connection.id), 0>>, 1, offset) \o value
            IN  /\ after.callback =
                      IF offset > 2 THEN "INVALID_OFFSET"
                      ELSE IF offset + Len(value) # 2 THEN "INVALID_ATTRIBUTE_VALUE_LENGTH"
                      ELSE IF ~Configurable(c, whole)
                      THEN "CLIENT_CHARACTERISTIC_CONFIGURATION_DESCRIPTOR_IMPROPERLY_CONFIGURED"
                      ELSE "OK"
                /\ after.callback # "OK" => Untouched(gatt, after)
                /\ after.callback = "OK" =>
                      CccdValue(after.allServices[ref[1]].characteristics[ref[2]],
                                gatt.connection.id) = whole[1]

\* a write has just been refused because of its bytes, on a connection of a
\* bonded peer that has a non-zero value in a CCCD and in the storage
C18_Witness ==
    /\ gatt.connection.state = "connected" /\ gatt.connection.isBonded
    /\ gatt.callback = "CLIENT_CHARACTERISTIC_CONFIGURATION_DESCRIPTOR_IMPROPERLY_CONFIGURED"
    /\ \E c \in CccdCharacteristics(gatt) :
          CccdValue(c, gatt.connection.id) # 0 /\ Persisted(gatt, c) # 0

\* the calls of onSubscriptionChange the last hook made are, once each, the
\* calls Call gives for the characteristics in chosen
CalledOnceFor(log, chosen, Call(_)) ==
    /\ {log[k] : k \in DOMAIN log} = {Call(c) : c \in chosen}
    /\ Len(log) = Cardinality(chosen)

\* C19: for a bonded peer the value of every CCCD for the connection is the
\* value last persisted for the peer and the handle, 0 if there is none, from
\* phase 1 of a connection on; and phase 2 calls onSubscriptionChange(conn,
\* notification bit, indication bit, false) once for each characteristic
\* whose restored value is not zero and for no other.
C19_BondedPeerGetsItsCccdsBack ==
    /\ [](gatt.connection.state \in {"connected1", "connected"} /\ gatt.connection.isBonded
            => \A c \in CccdCharacteristics(gatt) :
                  CccdValue(c, gatt.connection.id) = Persisted(gatt, c))
    /\ [][gatt.connection.state = "connected1" /\ gatt'.connection.state = "connected"
            /\ gatt.connection.isBonded
          => CalledOnceFor(gatt'.subscriptionChanges,
                 {c \in CccdCharacteristics(gatt) : Persisted(gatt, c) # 0},
                 LAMBDA c : [characteristic |-> c.startHandle,
                             connection |-> gatt.connection.id,
                             notification |-> Persisted(gatt, c) % 2 = 1,
                             indication |-> (Persisted(gatt, c) \div 2) % 2 = 1,
                             isWrite |-> FALSE])]_vars

\* the second connection of the bonded peer has passed phase 2: one CCCD got
\* a non-zero value back and its characteristic was called, one CCCD had no
\* persisted value
C19_Witness ==
    /\ gatt.connection.state = "connected" /\ gatt.connection.isBonded
    /\ gatt.connection.id = 2
    /\ Len(gatt.subscriptionChanges) >= 1
    /\ \A k \in DOMAIN gatt.subscriptionChanges : ~gatt.subscriptionChanges[k].isWrite
    /\ \E c \in CccdCharacteristics(gatt) :
          2 \in DOMAIN c.cccds /\ c.cccds[2] = Null

\* C20: a disconnect removes the entry of the connection from the cccds of
\* every characteristic and calls onSubscriptionChange(conn, false, false,
\* false) once for each characteristic whose value for the connection was not
\* zero and for no other; afterwards notify and indicate for the connection
\* return false and send nothing.
C20_DisconnectEndsSubscriptions ==
    /\ [][gatt.connection.state = "connected" /\ gatt'.connection.state = "disconnected"
          => /\ \A c \in CccdCharacteristics(gatt') : gatt.connection.id \notin DOMAIN c.cccds
             /\ CalledOnceFor(gatt'.subscriptionChanges,
                    {c \in CccdCharacteristics(gatt) : CccdValue(c, gatt.connection.id) # 0},
                    LAMBDA c : [characteristic |-> c.startHandle,
                                connection |-> gatt.connection.id,
                                notification |-> FALSE, indication |-> FALSE,
                                isWrite |-> FALSE])]_vars
    /\ [](\A id \in 1..gatt.connection.id :
            id < gatt.connection.id \/ gatt.connection.state = "disconnected"
              => \A k \in DOMAIN CccdRefs(gatt.allServices, 1) :
                    LET ref == CccdRefs(gatt.allServices, 1)[k]
                    IN  /\ userObj_notify(gatt, ref[1], ref[2], id) = <<FALSE, <<>>>>
                        /\ userObj_indicate(gatt, ref[1], ref[2], id) = <<FALSE, <<>>>>)

\* the peer has just disconnected with two characteristics subscribed and
\* one not
C20_Witness ==
    /\ gatt.connection.state = "disconnected"
    /\ Len(gatt.subscriptionChanges) = 2
    /\ Len(CccdRefs(gatt.allServices, 1)) = 3

(***************************************************************************)
(* Properties of the GATT client.                                          *)
(***************************************************************************)
\* C21: after invalidateServices(start, end) has completed, no item that
\* overlaps [start, end] is left in allPrimaryServices, in secondaryServices
\* or in a map of primaryServicesByUUID, and hasAllPrimaryServices is false,
\* so that the next discoverAllPrimaryServices asks the peer again.
C21_InvalidatedRangeIsForgotten ==
    ~client.hasPendingRequest =>
        \A range \in HandleRanges, strict \in BOOLEAN :
            LET after == invalidateServices(client, range[1], range[2], strict)
                Clear(map) == \A i \in DOMAIN map :
                                  map[i].end < range[1] \/ range[2] < map[i].start
            IN  /\ after.callbacks = <<"done">>
                /\ Clear(after.gattCache.allPrimaryServices)
                /\ Clear(after.gattCache.secondaryServices)
                /\ \A key \in DOMAIN after.gattCache.primaryServicesByUUID :
                      Clear(after.gattCache.primaryServicesByUUID[key])
                /\ ~after.gattCache.hasAllPrimaryServices
                /\ discoverPrimaryServices(after).queried # <<>>

\* a response has been handled
Responded == client'.nResponses = client.nResponses + 1

\* a PREPARE_WRITE_RESPONSE that is not the echo of the request has been
\* handled in a reliable write
Unechoed ==
    /\ client.write.awaiting = "prepare" /\ client.inReliableWrite
    /\ Responded
    /\ client'.received[1] = PREPARE_WRITE_RESPONSE
    /\ Len(client'.received) >= 5
    /\ Tail(client'.received) # Tail(client.write.buffer)

DisconnectionOf(h) ==
    /\ h \in DOMAIN hci.activeConnections
    /\ h \notin DOMAIN hci'.activeConnections
    /\ hci'.answered = hci.answered

WrittenSinceError ==
    SelectSeq(SubSeq(hci.written, hci.errorAt + 1, Len(hci.written)),
              LAMBDA w : w.type = COMMAND)

AllWritten(call) ==
    LET frags == {i \in DOMAIN hci.written :
                     hci.written[i].type = ACLDATA /\ hci.written[i].id = call.id}
        len == [i \in DOMAIN hci.written |-> hci.written[i].len]
    IN  SumOver(len, frags) = call.total

\* the number of times the callback of the call `id` occurs in `callbacks`
Invocations(callbacks, id) == Cardinality({i \in DOMAIN callbacks : callbacks[i] = id})

\* C25: sentCallback is invoked once, in the step that writes the last
\* fragment of the PDU; completeCallback is invoked at most once and never
\* before sentCallback; and a PDU that was written whole has had its
\* completeCallback invoked unless it still waits, on its connection, for
\* the controller to report it complete: a disconnection invokes the
\* completeCallbacks it flushes.
C25_SentThenCompleteOnceEach ==
    \A call \in hci.sendDataCalls :
        /\ Invocations(hci.sentCallbacks, call.id) = IF AllWritten(call) THEN 1 ELSE 0
        /\ Invocations(hci.completeCallbacks, call.id) <= 1
        /\ Invocations(hci.completeCallbacks, call.id) = 1 =>
              Invocations(hci.sentCallbacks, call.id) = 1
        /\ AllWritten(call) /\ Invocations(hci.completeCallbacks, call.id) = 0 =>
              \E c \in DOMAIN hci.activeConnections :
                  Invocations(hci.activeConnections[c].outgoingL2CAPPacketsInController,
                              call.id) = 1

(***************************************************************************)
(* Properties of the DuplicateCache.                                       *)
(***************************************************************************)
\* what a cache of Capacity keys holds after the calls: the (key, value)
\* pairs, oldest first
RECURSIVE Held(_)
Held(calls) ==
    IF calls = <<>> THEN <<>>
    ELSE LET call == calls[Len(calls)]
             rest == SelectSeq(Held(SubSeq(calls, 1, Len(calls) - 1)),
                               LAMBDA e : e.key # call.key)
             all == IF call.op = "add" THEN Append(rest, call) ELSE rest
         IN  IF Len(all) > Capacity THEN Tail(all) ELSE all

\* the keys such a cache has evicted, oldest first
RECURSIVE Evicted(_)
Evicted(calls) ==
    IF calls = <<>> THEN <<>>
    ELSE LET before == SubSeq(calls, 1, Len(calls) - 1)
             call == calls[Len(calls)]
         IN  IF /\ call.op = "add" /\ Len(Held(before)) = Capacity
                /\ \A i \in 1..Capacity : Held(before)[i].key # call.key
             THEN Append(Evicted(before), Held(before)[1].key)
             ELSE Evicted(before)

\* C26: the cache admits Capacity distinct keys; a new key added to a full
\* cache evicts the oldest key and no other, with one 'remove' event for it;
\* get returns the value of each of the Capacity most recent keys and null
\* for every other key, and the cache never holds more than Capacity keys.
C26_CacheKeepsTheMostRecentKeys ==
    /\ cache.threw = ""
    /\ Cardinality(DOMAIN cache.nodeMap) <= Capacity
    /\ cache.emitted = Evicted(cache.calls)
    /\ \A key \in CacheKeys :
          LET held == SelectSeq(Held(cache.calls), LAMBDA e : e.key = key)
          IN  get(cache, key) = IF held = <<>> THEN Null ELSE held[1].value

(***************************************************************************)
(* Properties of the persistence store.                                    *)
(***************************************************************************)
\* C27: after removeBond for a peer, getKeys returns nothing for the peer
\* and the directory of the peer is gone from bonds, whatever had been
\* stored for the peer.
C27_RemoveBondRemovesEverything ==
    store.last.op = "removeBond" =>
        /\ getKeys(store, store.last.peerAddress) = <<>>
        /\ store.last.peerAddress \notin DOMAIN store.disk

\* C28: the keys storeKeys has just written, parsed again from keys.json by
\* the init of a new process, give the same IRK, LTK and Rand bytes, the
\* same EDIV and the same mitm and sc flags.
C28_KeysSurviveARestart ==
    store.last.op = "storeKeys" =>
        LET peer == store.last.peerAddress
            k == store.last.keys
            fresh == storage_init_entry(store.disk)
            Same(ltk, buffer, rand, ediv) ==
                IF buffer = NoBuffer THEN ltk = NoLtk
                ELSE ltk.ltk = buffer /\ ltk.rand = rand /\ ltk.ediv = ediv
        IN  /\ k.irk # NoBuffer => peer \in DOMAIN fresh.irks /\ fresh.irks[peer].irk = k.irk
            /\ k.irk = NoBuffer => peer \notin DOMAIN fresh.irks
            /\ peer \in DOMAIN fresh.ltks
            /\ fresh.ltks[peer].mitm = k.mitm
            /\ fresh.ltks[peer].sc = k.sc
            /\ Same(fresh.ltks[peer].localLtk, k.localLtk, k.localRand, k.localEdiv)
            /\ Same(fresh.ltks[peer].peerLtk, k.peerLtk, k.peerRand, k.peerEdiv)

(***************************************************************************)
(* Properties of the permission check.                                     *)
(***************************************************************************)
\* C29: open and custom permit; not-permitted gives READ_NOT_PERMITTED for a
\* read and WRITE_NOT_PERMITTED for a write; an encrypted* permission on an
\* unencrypted link gives INSUFFICIENT_ENCRYPTION when an LTK is stored and
\* INSUFFICIENT_AUTHENTICATION when none is; on an encrypted link it permits
\* exactly when the level has the MITM flag (and the SC flag) it asks for,
\* and gives INSUFFICIENT_AUTHENTICATION otherwise.
C29_PermissionCheck ==
    \A perm \in Perms, isWrite \in BOOLEAN :
        LET s == link.smp
            err == checkPerm_smp(s, perm, isWrite)
            Needed == CASE perm = "encrypted-mitm" -> s.mitm
                        [] perm = "encrypted-mitm-sc" -> s.mitm /\ s.sc
                        [] OTHER -> TRUE
        IN  /\ perm \in {"open", "custom"} => err = "OK"
            /\ perm = "not-permitted" =>
                  err = IF isWrite THEN "WRITE_NOT_PERMITTED" ELSE "READ_NOT_PERMITTED"
            /\ perm \in {"encrypted", "encrypted-mitm", "encrypted-mitm-sc"} =>
                  /\ ~s.isEncrypted /\ s.hasLtk => err = "INSUFFICIENT_ENCRYPTION"
                  /\ ~s.isEncrypted /\ ~s.hasLtk => err = "INSUFFICIENT_AUTHENTICATION"
                  /\ s.isEncrypted => (err = "OK" <=> Needed)
                  /\ s.isEncrypted /\ ~Needed => err = "INSUFFICIENT_AUTHENTICATION"

\* the check refused a permission that asks for encryption on a link that
\* was not encrypted but had an LTK
C29_Witness ==
    /\ link.perm = "encrypted-mitm-sc" /\ link.err = "INSUFFICIENT_ENCRYPTION"
    /\ link.smp.hasLtk /\ ~link.smp.isEncrypted

(***************************************************************************)
(* Properties of the READ_BY_TYPE and READ_BY_GROUP_TYPE responses.        *)
(***************************************************************************)
\* the k-th entry of the list response ret
Entry(ret, k) == SubSeq(ret, 3 + (k - 1) * ret[2], 2 + k * ret[2])

\* the number of entries of the list response ret
Entries(ret) == (Len(ret) - 2) \div ret[2]

\* the first `most` bytes of value
Truncated(value, most) == SubSeq(value, 1, Min(Len(value), most))

\* the handles start..end of ReadDb whose attribute has the type, in order
Matching(start, end, type) ==
    LET IsOfType(j) == start <= j /\ j <= end /\ ReadDb[j].uuid = type
    IN  SelectSeq([j \in 1..Len(ReadDb) |-> j], IsOfType)

\* C30: the values in a READ_BY_TYPE_RESPONSE and in a
\* READ_BY_GROUP_TYPE_RESPONSE all have the length the response announces;
\* they are the (truncated) values of the first attributes of the type, in
\* order, and the first attribute whose truncated value has another length
\* than the first entry ends the collection and is not in the response.
C30_ListedValuesHaveOneLength ==
    LET ret == reads.response.bytes
        n == Entries(ret)
        mtu == reads.requestMtu
    IN  /\ reads.phase = "done" /\ reads.response.opcode = READ_BY_TYPE_RESPONSE =>
              LET read == [k \in DOMAIN reads.callbacks |->
                              Truncated(reads.callbacks[k].value, Min(253, mtu - 4))]
              IN  /\ n >= 1 /\ Len(ret) = 2 + n * ret[2] /\ Len(ret) <= mtu
                  /\ n <= Len(read) /\ Len(read) <= n + 1
                  /\ \A k \in 1..n :
                        /\ Len(read[k]) = ret[2] - 2
                        /\ Entry(ret, k) = writeUInt16LE(reads.callbacks[k].handle) \o read[k]
                  /\ \A k \in DOMAIN read :
                        Len(read[k]) # Len(read[1]) => k = n + 1 /\ k = Len(read)
        /\ reads.phase = "done" /\ reads.response.opcode = READ_BY_GROUP_TYPE_RESPONSE =>
              LET found == Matching(reads.startingHandle, reads.endingHandle,
                                    reads.attributeType)
                  value == [k \in DOMAIN found |->
                               Truncated(ReadDb[found[k]].value, Min(251, mtu - 6))]
              IN  /\ n >= 1 /\ Len(ret) = 2 + n * ret[2] /\ Len(ret) <= mtu
                  /\ n <= Len(found)
                  /\ \A k \in 1..n :
                        /\ Len(value[k]) = ret[2] - 4
                        /\ SubSeq(Entry(ret, k), 1, 2) = writeUInt16LE(found[k])
                        /\ SubSeq(Entry(ret, k), 5, ret[2]) = value[k]
                  /\ \A k \in DOMAIN found : Len(value[k]) # Len(value[1]) => k > n
                  /\ n < Len(found) =>
                        \/ Len(value[n + 1]) # Len(value[1])
                        \/ 2 + ret[2] * (n + 1) > mtu

\* a READ_BY_TYPE_RESPONSE of two entries, ended by a third value of another
\* length
C30_Witness ==
    /\ reads.phase = "done" /\ reads.response.opcode = READ_BY_TYPE_RESPONSE
    /\ Entries(reads.response.bytes) = 2
    /\ Len(reads.callbacks) = 3
    /\ reads.callbacks[3].err = "OK"
    /\ Len(reads.callbacks[3].value) # Len(reads.callbacks[1].value)

(***************************************************************************)
(* Properties of the attribute functions.                                  *)
(***************************************************************************)
ResponsesTo(rid) == {i \in 1..Len(srv.out) : srv.out[i].rid = rid}

HandlerCallsFor(rid) == {i \in 1..Len(srv.handled) : srv.handled[i].rid = rid}

\* C31: every accepted request gets at most one response PDU and at most
\* one call of the attribute's read or write handler, however often the
\* user's handlers call the functions they were given, and a request whose
\* authorisation was outstanding when the connection disconnected gets no
\* response.
C31_OneResponseAndOneHandlerCall ==
    /\ \A rid \in srv.accepted :
          /\ Cardinality(ResponsesTo(rid)) <= 1
          /\ Cardinality(HandlerCallsFor(rid)) <= 1
    /\ \A rid \in srv.waiting : ResponsesTo(rid) = {}

(***************************************************************************)
(* Properties of the response match.                                       *)
(***************************************************************************)
\* the data handler takes data as an answer to the request in flight
Answers(data) ==
    /\ ~att.timedout
    /\ data.len <= att.currentMtu
    /\ att.currentOutgoingRequest # NoRequest
    /\ att.currentOutgoingRequestIsSent
    /\ data.op \in {att.currentOutgoingRequest.responseOpcode, ERROR_RESPONSE}

\* the request's callback turns data down, or data is an ERROR_RESPONSE of
\* another length than 5
Invalid(data) ==
    \/ data.op = ERROR_RESPONSE /\ data.len # 5
    \/ CASE att.currentOutgoingRequest.responseOpcode = EXCHANGE_MTU_RESPONSE ->
                ~exchangeMtu_callback(att, data.op = ERROR_RESPONSE, data)[1]
         [] att.currentOutgoingRequest.responseOpcode = FIND_INFORMATION_RESPONSE ->
                ~findInformation_callback(att, data.op = ERROR_RESPONSE, data)[1]
         [] OTHER -> ~read_callback(att, data.op = ERROR_RESPONSE, data)[1]

\* the request in flight ends
RequestEnds ==
    /\ att.currentOutgoingRequest # NoRequest
    /\ att'.currentOutgoingRequest # att.currentOutgoingRequest

\* C32: a PDU with the expected response opcode that the request's callback
\* turns down, or an ERROR_RESPONSE that is not 5 bytes long, changes
\* nothing: the request stays in flight, its timer stays armed, no callback
\* is invoked, nothing is sent; and the request in flight is replaced only
\* when a response is accepted, its timer running until then or until it
\* fires.
C32_InvalidResponseIsDropped ==
    /\ [](\A data \in ResponsePdus : Answers(data) /\ Invalid(data) => onData(att, data) = att)
    /\ [][RequestEnds => Len(att'.completed) = Len(att.completed) + 1]_vars
    /\ [](att.currentOutgoingRequest # NoRequest /\ ~att.timedout => att.requestTimer)

\* a FIND_INFORMATION_REQUEST is in flight and sent with another request
\* queued behind it, and the one PDU received so far was dropped
C32_Witness ==
    /\ att.currentOutgoingRequest.responseOpcode = FIND_INFORMATION_RESPONSE
    /\ att.currentOutgoingRequestIsSent
    /\ att.requestTimer
    /\ Queue_getLength(att.requestQueue) = 1
    /\ att.nOps = 3
    /\ att.completed = <<>>
    /\ \E data \in ResponsePdus :
          /\ data.op = FIND_INFORMATION_RESPONSE
          /\ Answers(data) /\ Invalid(data)

(***************************************************************************)
(* Properties of the fifo.                                                *)
(***************************************************************************)
\* the items the calls of shift returned, oldest first
RECURSIVE Items_returned(_)
Items_returned(shifted) ==
    IF shifted = <<>> THEN <<>>
    ELSE LET rest == Items_returned(SubSeq(shifted, 1, Len(shifted) - 1))
             last == shifted[Len(shifted)]
         IN  IF last.elem = undefined THEN rest ELSE Append(rest, last.elem)

\* C33: shift returns the pushed items in push order, each once; it returns
\* undefined exactly when every item pushed so far has been returned; and
\* getLength is the number of pushes minus the number of items returned.
C33_QueueIsFifo ==
    LET returned == Items_returned(fifo.shifted)
    IN  /\ Len(returned) <= Len(fifo.pushed)
        /\ returned = SubSeq(fifo.pushed, 1, Len(returned))
        /\ \A i \in 1..Len(fifo.shifted) :
              fifo.shifted[i].elem = undefined <=>
                  Len(Items_returned(SubSeq(fifo.shifted, 1, i - 1))) = fifo.shifted[i].pushes
        /\ Queue_getLength(fifo.Q) = Len(fifo.pushed) - Len(returned)

(***************************************************************************)
(* Properties of the FIND_INFORMATION_RESPONSE.                            *)
(***************************************************************************)
\* C34: a response is at most currentMtu bytes long, and a
\* FIND_INFORMATION_RESPONSE holds entries of one UUID format only (4 bytes
\* for a 16-bit entry, 18 for a 128-bit one), which take MTU - 2 bytes at
\* most.
C34_ResponseFitsTheMtu ==
    /\ info.response.len <= info.currentMtu
    /\ info.response.op = FIND_INFORMATION_RESPONSE =>
          LET list == info.response.list
              size == IF info.response.format = 1 THEN 2 ELSE 16
          IN  /\ \A i \in 1..Len(list) : list[i].bytes = size
              /\ (2 + size) * Len(list) <= info.currentMtu - 2

(***************************************************************************)
(* Properties of the long write.                                           *)
(***************************************************************************)
\* a long write outside a reliable write is under way
LongWrite ==
    /\ client.write.awaiting \in {"prepare", "execute", "cancel"}
    /\ ~client.inReliableWrite

\* the number of PREPARE_WRITE_REQUESTs the write under way has sent
PartsSent ==
    (client.write.offset - client.write.startOffset) \div (att.currentMtu - 5) + 1

\* the offset field and the value of a PREPARE_WRITE_REQUEST
OffsetOf(pdu) == pdu[4] + 256 * pdu[5]

ValueOf(pdu) == SubSeq(pdu, 6, Len(pdu))

\* `out` ends with the k parts of the write under way, followed by `after`
\* more PDUs: each part holds at most MTU - 5 bytes, the first starts at the
\* write's offset, each next one where the one before ended, and together
\* they are the beginning of the value
ChainSent(k, after) ==
    LET w == client.write
        base == Len(client.out) - after - k
    IN  /\ base >= 0
        /\ \A j \in 1..k :
              LET pdu == client.out[base + j]
              IN  /\ pdu[1] = PREPARE_WRITE_REQUEST
                  /\ pdu[2] + 256 * pdu[3] = w.handle
                  /\ Len(ValueOf(pdu)) <= att.currentMtu - 5
                  /\ OffsetOf(pdu) = IF j = 1 THEN w.startOffset
                                     ELSE OffsetOf(client.out[base + j - 1])
                                              + Len(ValueOf(client.out[base + j - 1]))
                  /\ ValueOf(pdu) = SubSeq(w.value, OffsetOf(pdu) - w.startOffset + 1,
                                           OffsetOf(pdu) - w.startOffset + Len(ValueOf(pdu)))

\* the whole value was sent
ChainComplete ==
    LET last == client.out[Len(client.out) - 1]
    IN  OffsetOf(last) + Len(ValueOf(last)) = client.write.startOffset + Len(client.write.value)

\* what is sent while the write is under way
LongWriteSends ==
    LongWrite =>
        CASE client.write.awaiting = "prepare" -> ChainSent(PartsSent, 0)
          [] client.write.awaiting = "execute" ->
                /\ ChainSent(PartsSent, 1) /\ ChainComplete
                /\ client.out[Len(client.out)] = <<EXECUTE_WRITE_REQUEST, 1>>
          [] client.write.awaiting = "cancel" ->
                /\ ChainSent(PartsSent, 1)
                /\ client.out[Len(client.out)] = <<EXECUTE_WRITE_REQUEST, 0>>

\* the peer answers a part of the long write with an ERROR_RESPONSE
PartRefused ==
    /\ LongWrite /\ client.write.awaiting = "prepare"
    /\ Responded
    /\ client'.received[1] = ERROR_RESPONSE

\* the callback of the long write is invoked
LongWriteCalledBack == LongWrite /\ Len(client'.callbacks) = Len(client.callbacks) + 1

Cancelled ==
    /\ client'.out = Append(client.out, <<EXECUTE_WRITE_REQUEST, 0>>)
    /\ client'.callbacks = client.callbacks

TimersFollowFlight ==
    /\ att.requestTimer => att.currentOutgoingRequest # NoRequest
    /\ att.indicationTimer => att.currentOutgoingIndication # 0

\* C36 as stated: the request timer and the indication timer are never
\* armed at the same time, and a timer is armed only while a request or an
\* indication is in flight.
C36_OneTimerAtATime ==
    /\ ~(att.requestTimer /\ att.indicationTimer)
    /\ TimersFollowFlight

\* C36: the request timer is armed only while a request is in flight and
\* the indication timer only while an indication is in flight; a request
\* and an indication may be in flight together, and then both timers are
\* armed.  A step arms a timer only by putting a request or an indication
\* in flight.
C36_OneTimerPerTransaction ==
    /\ []TimersFollowFlight
    /\ [][~att.requestTimer /\ att'.requestTimer =>
            /\ att'.currentOutgoingRequest # NoRequest
            /\ ~att'.currentOutgoingRequestIsSent]_vars
    /\ [][~att.indicationTimer /\ att'.indicationTimer =>
            /\ att'.currentOutgoingIndication # 0
            /\ ~att'.currentOutgoingIndicationIsSent]_vars

\* a request and an indication are in flight, each with its timer armed
C36_Witness ==
    /\ att.requestTimer /\ att.currentOutgoingRequest # NoRequest
    /\ att.indicationTimer /\ att.currentOutgoingIndication # 0
    /\ ~att.timedout

(***************************************************************************)
(* Properties of the outbound ACL data.                                    *)
(***************************************************************************)
\* the connections with a queued fragment that may be sent
Sendable ==
    {c \in DOMAIN hci.activeConnections :
        /\ Queue_getLength(hci.activeConnections[c].outgoingL2CAPBuffer) # 0
        /\ ~hci.activeConnections[c].disconnecting}

\* the ACL packets a step writes
AclWrittenBy(c) ==
    {i \in (Len(hci.written) + 1)..Len(hci'.written) :
        hci'.written[i].type = ACLDATA /\ hci'.written[i].handle = c}

FragmentsOf(call) ==
    {i \in DOMAIN hci.written : hci.written[i].type = ACLDATA /\ hci.written[i].id = call.id}

Before(call, i) == Cardinality({j \in FragmentsOf(call) : j < i})

\* C38: the fragments of a connection are written in the order sendData
\* queued them, each once: the k-th fragment written for a call is the k-th
\* slice of length || CID || payload, of at most aclMtu bytes, flagged as
\* first exactly when k is 1, and a fragment of an earlier call is never
\* written after one of a later call of the same connection.
C38_FragmentsInOrderOnce ==
    /\ \A call \in hci.sendDataCalls : \A i \in FragmentsOf(call) :
          LET k == Before(call, i) + 1
              w == hci.written[i]
          IN  /\ w.handle = call.handle
              /\ w.len <= call.aclMtu
              /\ (k - 1) * call.aclMtu < call.total
              /\ w.len = Min(k * call.aclMtu, call.total) - (k - 1) * call.aclMtu
              /\ w.isFirst <=> k = 1
    /\ \A i, j \in DOMAIN hci.written :
          /\ i < j
          /\ hci.written[i].type = ACLDATA /\ hci.written[j].type = ACLDATA
          /\ hci.written[i].handle = hci.written[j].handle
          => hci.written[i].id <= hci.written[j].id

\* the resolvable random addresses a peer may use
RandomAddresses == [prand : 0..3, hash : 0..3]

\* C39: after removeBond nothing of the peer is left in memory: getGattCache
\* for the bonded peer returns null, getCccd returns 0 for every handle and
\* resolveAddress resolves no random address to the peer.
C39_NothingOfTheBondInMemory ==
    store.last.op = "removeBond" =>
        LET peer == store.last.peerAddress
        IN  /\ getGattCache(store, peer) = <<>>
            /\ \A handle \in 1..4 : storage_getCccd(store, peer, handle) = 0
            /\ \A a \in RandomAddresses : resolveAddress(store, a) # <<peer>>

(***************************************************************************)
(* Properties of the UUID codec.                                           *)
(***************************************************************************)
\* C40: serializeUuid of a 16-bit integer u is the two bytes u mod 256 and
\* u div 256, and getFullUuid of what serializeUuid returns for a valid
\* UUID is the canonical 128-bit form fixUuid gives.
C40_UuidRoundTrip ==
    codec.used =>
        /\ codec.uuid.kind = "number" =>
              codec.serialized = Buffer(<<codec.uuid.n % 256, codec.uuid.n \div 256>>)
        /\ codec.full = fixUuid(codec.uuid)

====
